---- MODULE Spec2Model ----
(***************************************************************************)
(* The compact Battlesnake board (CellBoard) and its move-evaluation       *)
(* engine: conversion from a game snapshot, generate_state,                *)
(* evaluate_moves_with_state and simulate_with_moves.                      *)
(***************************************************************************)
EXTENDS Integers, Sequences, FiniteSets, TLC

VARIABLES
    board,    \* the current CellBoard
    mode,     \* EvaluateMode of the adapter that owns the board
    debug,    \* whether the build has debug assertions enabled
    prev,     \* the board the last simulate_with_moves call was made on
    last,     \* the last call: its kind, the joint move and the Action emitted
    status,   \* "ok", or "panic" / "hang" once a call did not return
    turn      \* counts the simulate_with_moves calls, up to MaxTurns

vars == <<board, mode, debug, prev, last, status, turn>>

(***************************************************************************)
(* Bounds of the model.                                                    *)
(***************************************************************************)
MaxTurns == 2

(***************************************************************************)
(* Program constants.                                                      *)
(***************************************************************************)
N_MOVES == 4
TRIPLE_STACK == 3
DOUBLE_STACK == 2
DefaultHazardDamage == 15
MaxHealth == 100
CellNumModulus == 256

(***************************************************************************)
(* types.rs: Move                                                          *)
(***************************************************************************)
MoveAll == <<"Up", "Down", "Left", "Right">>

Moves == {MoveAll[k] : k \in 1..N_MOVES}

as_index(m) ==
    CASE m = "Up" -> 0
      [] m = "Down" -> 1
      [] m = "Left" -> 2
      [] m = "Right" -> 3

\* Lines 94-102; any other index panics.
from_index(index) ==
    CASE index = 0 -> "Up"
      [] index = 1 -> "Down"
      [] index = 2 -> "Left"
      [] index = 3 -> "Right"
      [] OTHER -> "invalid index"

to_vector(m) ==
    CASE m = "Left" -> [x |-> -1, y |-> 0]
      [] m = "Right" -> [x |-> 1, y |-> 0]
      [] m = "Up" -> [x |-> 0, y |-> 1]
      [] m = "Down" -> [x |-> 0, y |-> -1]

add_vec(pos, v) == [x |-> pos.x + v.x, y |-> pos.y + v.y]

Pos(px, py) == [x |-> px, y |-> py]

(***************************************************************************)
(* core/mod.rs: CellIndex                                                  *)
(***************************************************************************)
from_i32(i) == i % CellNumModulus

CellIndexNew(pos, width) == from_i32(pos.y * width + pos.x)

into_position(idx, width) == [x |-> idx % width, y |-> idx \div width]

(***************************************************************************)
(* core/mod.rs: Cell                                                       *)
(***************************************************************************)
EmptyCell == [flags |-> "Empty", hazard_count |-> 0, id |-> 0, idx |-> 0]

make_snake_head(sid, tail_index) ==
    [flags |-> "SnakeHead", hazard_count |-> 0, id |-> sid, idx |-> tail_index]

make_body_piece(sid, next_index) ==
    [flags |-> "SnakeBodyPiece", hazard_count |-> 0, id |-> sid, idx |-> next_index]

make_double_stacked_piece(sid, next_index) ==
    [flags |-> "DoubleStackedPiece", hazard_count |-> 0, id |-> sid, idx |-> next_index]

make_triple_stacked_piece(sid) ==
    [flags |-> "TripleStackedPiece", hazard_count |-> 0, id |-> sid, idx |-> 0]

is_empty(c) == c.flags = "Empty"
is_food(c) == c.flags = "Food"
\* A cell that never counts as a hazard.
never_hazard(c) == FALSE

is_hazard(c) == c.hazard_count > 0
is_snake_body_piece(c) == c.flags = "SnakeBodyPiece"
is_double_stacked_piece(c) == c.flags = "DoubleStackedPiece"
is_triple_stacked_piece(c) == c.flags = "TripleStackedPiece"

is_body_segment(c) ==
    is_snake_body_piece(c) \/ is_double_stacked_piece(c) \/ is_triple_stacked_piece(c)

is_head(c) == c.flags = "SnakeHead" \/ is_triple_stacked_piece(c)

\* A cell that never counts as a stack of segments.
never_stacked(c) == FALSE

is_stacked(c) == is_double_stacked_piece(c) \/ is_triple_stacked_piece(c)

\* Option values are modelled as [some |-> BOOLEAN, v |-> value].
None == [some |-> FALSE, v |-> 0]
Some(x) == [some |-> TRUE, v |-> x]

get_tail_position(c, ci) ==
    IF is_head(c)
    THEN IF is_triple_stacked_piece(c) THEN Some(ci) ELSE Some(c.idx)
    ELSE None

get_next_index(c) ==
    IF is_snake_body_piece(c) \/ is_double_stacked_piece(c) THEN Some(c.idx) ELSE None

get_snake_id(c) ==
    IF is_body_segment(c) \/ is_head(c) THEN Some(c.id) ELSE None

\* The cell reset to the empty cell, hazard mark included.
reset(c) == [flags |-> "Empty", hazard_count |-> 0, id |-> 0, idx |-> 0]

remove(c) == [c EXCEPT !.flags = "Empty", !.id = 0, !.idx = 0]

set_food(c) == [c EXCEPT !.flags = "Food"]

set_hazard(c) == [c EXCEPT !.hazard_count = 1]

set_head(c, sid, tail_index) ==
    [c EXCEPT !.flags = "SnakeHead", !.id = sid, !.idx = tail_index]

set_body_piece(c, sid, next_pos) ==
    [c EXCEPT !.flags = "SnakeBodyPiece", !.id = sid, !.idx = next_pos]

set_double_stacked(c, sid, next_pos) ==
    [c EXCEPT !.flags = "DoubleStackedPiece", !.id = sid, !.idx = next_pos]

(***************************************************************************)
(* core/cell_board/mod.rs: CellBoard.  BOARD_SIZE and MAX_SNAKES are the   *)
(* sizes of the cells and healths arrays.                                  *)
(***************************************************************************)
BoardSize(b) == Cardinality(DOMAIN b.cells)

MaxSnakes(b) == Cardinality(DOMAIN b.healths)

SnakeIds(b) == DOMAIN b.healths

ISqrt(n) == CHOOSE r \in 0..n : r * r <= n /\ (r + 1) * (r + 1) > n

\* CellBoard::width(): (BOARD_SIZE as f32).sqrt() as u8
width(b) == ISqrt(BoardSize(b))

get_actual_width(b) == b.dimensions.width

get_actual_height(b) == b.dimensions.height

get_cell(b, ci) == b.cells[ci]

off_board(b, position) ==
    \/ position.x < 0
    \/ position.x >= get_actual_width(b)
    \/ position.y < 0
    \/ position.y >= get_actual_height(b)

get_length(b, sid) == b.lengths[sid]

cell_keep(b, ci) == b

cell_remove(b, ci) == [b EXCEPT !.cells[ci] = remove(@)]

set_cell_body_piece(b, ci, sid, next_id) ==
    [b EXCEPT !.cells[ci] = set_body_piece(@, sid, next_id)]

\* The cell written as a plain body piece, whatever was asked for.
set_cell_unstacked(b, ci, sid, next_id) == set_cell_body_piece(b, ci, sid, next_id)

set_cell_double_stacked(b, ci, sid, next_id) ==
    [b EXCEPT !.cells[ci] = set_double_stacked(@, sid, next_id)]

\* A head written under the food: the cell keeps its kind when it is Food.
set_cell_head_under_food(b, ci, sid, next_id) ==
    IF is_food(b.cells[ci]) THEN b
    ELSE [b EXCEPT !.cells[ci] = set_head(@, sid, next_id)]

set_cell_head(b, ci, sid, next_id) ==
    [b EXCEPT !.cells[ci] = set_head(@, sid, next_id)]

\* A kill that leaves the snake one point of health.
spare(b, sid) ==
    [b EXCEPT !.healths[sid] = 1, !.heads[sid] = 0, !.lengths[sid] = 0]

kill(b, sid) ==
    [b EXCEPT !.healths[sid] = 0, !.heads[sid] = 0, !.lengths[sid] = 0]

\* The loop of kill_and_remove.  Every visited cell is emptied, so the walk
\* ends; `bad` records a failed debug_assert (a visited cell owned by
\* another snake).
RECURSIVE KillWalk(_, _, _, _)
KillWalk(b, cur, sid, bad) ==
    IF ~cur.some THEN [b |-> b, bad |-> bad]
    ELSE LET c == get_cell(b, cur.v)
             owner == get_snake_id(c)
         IN KillWalk(cell_remove(b, cur.v), get_next_index(c), sid,
                     bad \/ (owner.some /\ owner.v # sid))

\* A kill that leaves food on the square of the head.
kill_and_feed(b, sid) ==
    [b |-> [kill(b, sid) EXCEPT !.cells[b.heads[sid]] = set_food(@)], bad |-> FALSE]

kill_and_remove(b, sid) ==
    LET head == b.heads[sid]
        Killed(w) == [b |-> kill(w.b, sid), bad |-> w.bad]
    IN Killed(KillWalk(b, get_tail_position(get_cell(b, head), head), sid, FALSE))

\* assert_consistency: "ok" | "bad" per snake; the walk of a ring that never
\* reaches the head does not return ("hang").
RECURSIVE ConsistencyWalk(_, _, _, _, _)
ConsistencyWalk(b, index, head_index, sid, fuel) ==
    IF index = head_index THEN "ok"
    ELSE IF fuel = 0 THEN "hang"
    ELSE LET c == get_cell(b, index)
         IN IF ~is_body_segment(c) THEN "bad"
            ELSE IF get_snake_id(c) # Some(sid) THEN "bad"
            ELSE IF ~get_next_index(c).some THEN "bad"
            ELSE ConsistencyWalk(b, get_next_index(c).v, head_index, sid, fuel - 1)

SnakeConsistency(b, i) ==
    IF b.healths[i] > 0
    THEN LET head_index == b.heads[i]
             tail_index == get_tail_position(get_cell(b, head_index), head_index)
         IN IF ~tail_index.some THEN "bad"
            ELSE ConsistencyWalk(b, tail_index.v, head_index, i, BoardSize(b))
    ELSE "ok"

\* The first snake (in id order) whose check does not say "ok" decides.
RECURSIVE ConsistencyFrom(_, _)
ConsistencyFrom(b, i) ==
    IF i >= MaxSnakes(b) THEN "ok"
    ELSE IF SnakeConsistency(b, i) = "ok" THEN ConsistencyFrom(b, i + 1)
    ELSE SnakeConsistency(b, i)

assert_consistency(b) == ConsistencyFrom(b, 0)

\* neck_queryable.rs: is_neck
is_neck(b, sid, pos) ==
    /\ get_snake_id(get_cell(b, pos)) = Some(sid)
    /\ get_next_index(get_cell(b, pos)) = Some(b.heads[sid])

\* victor_determinable.rs: alive_snake_count, is_over, get_winner
alive_snake_count(b) == Cardinality({i \in SnakeIds(b) : b.healths[i] # 0})

is_over(b) == b.healths[0] = 0 \/ alive_snake_count(b) <= 1

get_winner(b) ==
    IF is_over(b)
    THEN LET winning_ids == {i \in SnakeIds(b) : b.healths[i] # 0}
         IN IF winning_ids = {} THEN None
            ELSE Some(CHOOSE i \in winning_ids : \A j \in winning_ids : i <= j)
    ELSE None

(***************************************************************************)
(* core/cell_board/mod.rs: convert_from_game.  A game snapshot is          *)
(* [width, height, snakes, food, hazards, hazard_damage, ruleset]; snake i *)
(* of the list (1-based) has SnakeId i-1 (snake 1 is "you") and is         *)
(* [health, body], body head-first, head = body[1].  A board type is       *)
(* [board_size, max_snakes, dims].                                         *)
(***************************************************************************)
Count(body, p) == Cardinality({k \in DOMAIN body : body[k] = p})

\* itertools unique(): first occurrences, in order
RECURSIVE Unique(_)
Unique(body) ==
    IF body = <<>> THEN <<>>
    ELSE LET front == Unique(SubSeq(body, 1, Len(body) - 1))
             l == body[Len(body)]
         IN IF \E k \in 1..(Len(body) - 1) : body[k] = l
            THEN front
            ELSE Append(front, l)

bad_body_stack(snake) ==
    /\ \E p \in {snake.body[k] : k \in DOMAIN snake.body} : Count(snake.body, p) = TRIPLE_STACK
    /\ Cardinality({snake.body[k] : k \in DOMAIN snake.body}) # 1

\* Dimensions::from_dimensions
from_dimensions(dims, w, h) ==
    IF dims = "Square" THEN [kind |-> dims, width |-> w, height |-> w]
    ELSE [kind |-> dims, width |-> w, height |-> h]

\* The cells one snake writes (lines 285-310): w is [cells, next_index, panic].
RECURSIVE WriteBody(_, _, _, _, _)
WriteBody(w, snake, sid, uniq, k) ==
    IF k > Len(uniq) \/ w.panic THEN w
    ELSE LET pos == uniq[k]
             gw == snake.gw
             cell_idx == CellIndexNew(pos, gw)
             head_idx == CellIndexNew(snake.body[1], gw)
             count == Count(snake.body, pos)
             tail_index == CellIndexNew(snake.body[Len(snake.body)], gw)
             cell == IF count = TRIPLE_STACK THEN make_triple_stacked_piece(sid)
                     ELSE IF pos = snake.body[1] THEN make_snake_head(sid, tail_index)
                     ELSE IF count = DOUBLE_STACK
                          THEN make_double_stacked_piece(sid, w.next_index)
                     ELSE make_body_piece(sid, w.next_index)
             failed == \/ cell_idx \notin DOMAIN w.cells
                       \/ (k = 1 /\ cell_idx # head_idx)
                       \/ (count # TRIPLE_STACK /\ pos = snake.body[1]
                           /\ count = DOUBLE_STACK)
         IN IF failed THEN [w EXCEPT !.panic = TRUE]
            ELSE WriteBody([cells |-> [w.cells EXCEPT ![cell_idx] = cell],
                            next_index |-> cell_idx, panic |-> FALSE],
                           snake, sid, uniq, k + 1)

\* The loop over the snakes (lines 273-311): w is [cells, healths, heads, lengths, panic].
RECURSIVE WriteSnakes(_, _, _)
WriteSnakes(w, game, k) ==
    IF k > Len(game.snakes) \/ w.panic THEN w
    ELSE LET snake == game.snakes[k]
             sid == k - 1
         IN IF snake.health = 0 THEN WriteSnakes(w, game, k + 1)
            ELSE LET head_idx == CellIndexNew(snake.body[1], game.width)
                     wb == WriteBody([cells |-> w.cells, next_index |-> head_idx,
                                      panic |-> FALSE],
                                     [body |-> snake.body, gw |-> game.width],
                                     sid, Unique(snake.body), 1)
                 IN WriteSnakes([cells |-> wb.cells,
                                 healths |-> [w.healths EXCEPT ![sid] = snake.health % 256],
                                 heads |-> [w.heads EXCEPT ![sid] = head_idx],
                                 lengths |-> [w.lengths EXCEPT ![sid] = Len(snake.body)],
                                 panic |-> wb.panic],
                                game, k + 1)

\* The hazard and food loops (lines 312-328); a cell that is both is marked
\* hazard first and then food.
MarkFoodAndHazards(cells, game) ==
    [ci \in DOMAIN cells |->
        LET Visited(p) == /\ p.x \in 0..(game.width - 1)
                          /\ p.y \in 0..(game.height - 1)
                          /\ CellIndexNew(p, game.width) = ci
            hz == \E p \in game.hazards : Visited(p)
            fd == \E p \in game.food : Visited(p)
            c1 == IF hz THEN set_hazard(cells[ci]) ELSE cells[ci]
        IN IF fd THEN set_food(c1) ELSE c1]

\* The u32 product of line 251, width and height below 2^31, computed in
\* 16-bit halves: CarryHalf is the upper half of the product of the two
\* lower halves, LowHalf its lower half.
Half == 65536

MidSum(a, c) == (a \div 256) * (c % 256) + (a % 256) * (c \div 256)

LowSum(a, c) == (MidSum(a, c) % 256) * 256 + (a % 256) * (c % 256)

LowHalf(a, c) == LowSum(a % Half, c % Half) % Half

CarryHalf(a, c) ==
    ((a % Half) \div 256) * ((c % Half) \div 256)
        + (MidSum(a % Half, c % Half) \div 256)
        + (LowSum(a % Half, c % Half) \div Half)

\* The product in a build without overflow checks, as [hi, lo].
wrapping_mul(a, c) ==
    [hi |-> (CarryHalf(a, c) + (((a \div Half) * (c % Half)) % Half)
                             + (((a % Half) * (c \div Half)) % Half)) % Half,
     lo |-> LowHalf(a, c)]

\* The product does not fit in a u32 (a panic in a build with overflow checks).
mul_overflows(a, c) ==
    \/ (a \div Half > 0 /\ c \div Half > 0)
    \/ CarryHalf(a, c) + (a \div Half) * (c % Half) + (a % Half) * (c \div Half) >= Half

\* product > BOARD_SIZE as u32, for a board of fewer than 65536 cells
exceeds(product, board_size) == product.hi > 0 \/ product.lo > board_size

as_u8(n) == n % 256

Narrowed(game) == [game EXCEPT !.width = as_u8(@), !.height = as_u8(@)]

convert_from_game(game, ty) ==
    IF exceeds(wrapping_mul(game.width, game.height), ty.board_size)
    THEN [result |-> "Err", err |-> "game size doesn't fit in the given board size"]
    ELSE IF Len(game.snakes) > ty.max_snakes
    THEN [result |-> "Err", err |-> "too many snakes"]
    ELSE IF \E k \in DOMAIN game.snakes : bad_body_stack(game.snakes[k])
    THEN [result |-> "Err", err |-> "bad body stack"]
    ELSE LET Built(w, g) ==
                IF w.panic THEN [result |-> "Panic", err |-> ""]
                ELSE [result |-> "Ok", err |-> "",
                      b |-> [hazard_damage |-> g.hazard_damage % 256,
                             cells |-> MarkFoodAndHazards(w.cells, g),
                             healths |-> w.healths,
                             heads |-> w.heads,
                             lengths |-> w.lengths,
                             dimensions |-> from_dimensions(ty.dims, g.width, g.height)]]
         IN Built(WriteSnakes([cells |-> [ci \in 0..(ty.board_size - 1) |-> EmptyCell],
                               healths |-> [i \in 0..(ty.max_snakes - 1) |-> 0],
                               heads |-> [i \in 0..(ty.max_snakes - 1) |-> 0],
                               lengths |-> [i \in 0..(ty.max_snakes - 1) |-> 0],
                               panic |-> FALSE],
                              Narrowed(game), 1),
                  Narrowed(game))

\* standard/mod.rs convert_from_game, and wire_representation/mod.rs
\* as_wrapped_cell_board in front of wrapped/mod.rs convert_from_game
adapter_convert_from_game(game, ty, m) ==
    IF m = "Standard"
    THEN IF game.ruleset = "wrapped"
         THEN [result |-> "Err", err |-> "Wrapped games are not supported"]
         ELSE convert_from_game(game, ty)
    ELSE IF game.ruleset = "wrapped"
         THEN convert_from_game(game, ty)
         ELSE [result |-> "Panic", err |-> ""]

\* convert_from_game in one build: with overflow checks and debug
\* assertions (dbg) the product of line 251 panics when it overflows, and
\* Square::from_dimensions asserts width == height (dimensions.rs:50).
core_convert_in_build(game, ty, dbg) ==
    IF dbg /\ mul_overflows(game.width, game.height)
    THEN [result |-> "Panic", err |-> ""]
    ELSE LET Asserted(conv) ==
                IF /\ dbg
                   /\ conv.result = "Ok"
                   /\ ty.dims = "Square"
                   /\ as_u8(game.width) # as_u8(game.height)
                THEN [result |-> "Panic", err |-> ""]
                ELSE conv
         IN Asserted(convert_from_game(game, ty))

\* as_cell_board / standard convert_from_game (m = "Standard") and
\* as_wrapped_cell_board (m = "Wrapped") in one build.
convert_in_build(game, ty, m, dbg) ==
    IF m = "Standard"
    THEN IF game.ruleset = "wrapped"
         THEN [result |-> "Err", err |-> "Wrapped games are not supported"]
         ELSE core_convert_in_build(game, ty, dbg)
    ELSE IF game.ruleset = "wrapped"
         THEN core_convert_in_build(game, ty, dbg)
         ELSE [result |-> "Panic", err |-> ""]

(***************************************************************************)
(* core/mod.rs: Cell::pack_as_u32 and Cell::from_u32; core/cell_board/     *)
(* mod.rs: pack_as_hash and from_packed_hash.  A packed map is a record of *)
(* sequences of numbers, one field per key.                                *)
(***************************************************************************)
flag_as_u8(flags) ==
    CASE flags = "Empty" -> 5
      [] flags = "SnakeHead" -> 6
      [] flags = "SnakeBodyPiece" -> 1
      [] flags = "DoubleStackedPiece" -> 2
      [] flags = "TripleStackedPiece" -> 3
      [] flags = "Food" -> 4

flag_from_u8(n) ==
    CASE n = 5 -> "Empty"
      [] n = 6 -> "SnakeHead"
      [] n = 1 -> "SnakeBodyPiece"
      [] n = 2 -> "DoubleStackedPiece"
      [] n = 3 -> "TripleStackedPiece"
      [] n = 4 -> "Food"

pack_as_u32(c) == flag_as_u8(c.flags) + (c.id % 256) * 256 + (c.idx % Half) * Half

from_u32(value) ==
    [flags |-> flag_from_u8(value % 256),
     id |-> (value \div 256) % 256,
     idx |-> ((value \div Half) % Half) % CellNumModulus,
     hazard_count |-> 0]

\* The array arr (indexed from 0) as a Vec (indexed from 1), each element
\* through Packed.
ToVec(arr, Packed(_)) == [k \in 1..Cardinality(DOMAIN arr) |-> Packed(arr[k - 1])]

pack_as_hash(b) ==
    [hazard_damage |-> <<b.hazard_damage>>,
     actual_width |-> <<get_actual_width(b)>>,
     healths |-> ToVec(b.healths, LAMBDA x : x),
     lengths |-> ToVec(b.lengths, LAMBDA x : x),
     heads |-> ToVec(b.heads, LAMBDA x : x),
     cells |-> ToVec(b.cells, pack_as_u32)]

\* The array of the slots of `like` filled from the Vec vec through
\* Unpacked, slots beyond the Vec keeping `empty`.
FromVec(vec, slots, empty, Unpacked(_)) ==
    [i \in slots |-> IF i + 1 \in DOMAIN vec THEN Unpacked(vec[i + 1]) ELSE empty]

\* from_packed_hash for the board type of `like` (its BOARD_SIZE, MAX_SNAKES
\* and dimensions type; a Fixed<W, H> type has W and H in like.dimensions).
\* The map has no "actual_height", so the height is the width; in a build
\* with debug assertions Fixed::from_dimensions asserts both against W and H.
from_packed_hash(hash, like, dbg) ==
    LET actual_width == as_u8(hash.actual_width[1])
        actual_height == IF "actual_height" \in DOMAIN hash
                         THEN as_u8(hash.actual_height[1])
                         ELSE actual_width
        fixed == like.dimensions.kind = "Fixed"
    IN IF /\ dbg
          /\ fixed
          /\ (actual_width # like.dimensions.width \/ actual_height # like.dimensions.height)
       THEN [result |-> "Panic"]
       ELSE [result |-> "Ok",
             b |-> [hazard_damage |-> as_u8(hash.hazard_damage[1]),
                    cells |-> FromVec(hash.cells, DOMAIN like.cells, EmptyCell, from_u32),
                    healths |-> FromVec(hash.healths, DOMAIN like.healths, 0, as_u8),
                    heads |-> FromVec(hash.heads, DOMAIN like.heads, 0,
                                      LAMBDA x : x % CellNumModulus),
                    lengths |-> FromVec(hash.lengths, DOMAIN like.lengths, 0,
                                        LAMBDA x : x % Half),
                    dimensions |-> IF fixed THEN like.dimensions
                                   ELSE from_dimensions(like.dimensions.kind,
                                                        actual_width, actual_height)]]

(***************************************************************************)
(* standard/mod.rs: the board types of BestCellBoard and                   *)
(* to_best_cell_board.                                                     *)
(***************************************************************************)
CellBoard4Snakes7x7 == [board_size |-> 7 * 7, max_snakes |-> 4, dims |-> "Square"]

SmallExactBoard == [board_size |-> 7 * 7, max_snakes |-> 4, dims |-> "Fixed"]

CellBoard4Snakes11x11 == [board_size |-> 11 * 11, max_snakes |-> 4, dims |-> "Square"]

MediumExactBoard == [board_size |-> 11 * 11, max_snakes |-> 4, dims |-> "Fixed"]

CellBoard8Snakes15x15 == [board_size |-> 15 * 15, max_snakes |-> 8, dims |-> "Square"]

LargeExactBoard == [board_size |-> 19 * 19, max_snakes |-> 4, dims |-> "Fixed"]

CellBoard8Snakes25x25 == [board_size |-> 25 * 25, max_snakes |-> 8, dims |-> "Square"]

CellBoard16Snakes50x50 == [board_size |-> 50 * 50, max_snakes |-> 16, dims |-> "Square"]

\* The if-chain of lines 225-243: the variant and its board type.
best_board(bw, bh, num_snakes) ==
    IF bw = 7 /\ bh = 7 /\ num_snakes <= 4
    THEN [variant |-> "SmallExact", ty |-> SmallExactBoard]
    ELSE IF bw <= 7 /\ bh <= 7 /\ num_snakes <= 4
    THEN [variant |-> "Tiny", ty |-> CellBoard4Snakes7x7]
    ELSE IF bw = 11 /\ bh = 11 /\ num_snakes <= 4
    THEN [variant |-> "MediumExact", ty |-> MediumExactBoard]
    ELSE IF bw <= 11 /\ num_snakes <= 4
    THEN [variant |-> "Standard", ty |-> CellBoard4Snakes11x11]
    ELSE IF bw <= 15 /\ num_snakes <= 8
    THEN [variant |-> "LargestU8", ty |-> CellBoard8Snakes15x15]
    ELSE IF bw = 19 /\ bh = 19 /\ num_snakes <= 4
    THEN [variant |-> "LargeExact", ty |-> LargeExactBoard]
    ELSE IF bw <= 25 /\ num_snakes <= 8
    THEN [variant |-> "Large", ty |-> CellBoard8Snakes25x25]
    ELSE IF bw <= 50 /\ num_snakes <= 16
    THEN [variant |-> "Silly", ty |-> CellBoard16Snakes50x50]
    ELSE [variant |-> "none", ty |-> <<>>]

\* [result, err, variant, ty] and, when result is "Ok", the board b.
to_best_cell_board(game, dbg) ==
    LET Boxed(best, conv) ==
            IF conv.result = "Ok"
            THEN [result |-> "Ok", err |-> "", variant |-> best.variant,
                  ty |-> best.ty, b |-> conv.b]
            ELSE [result |-> conv.result, err |-> conv.err, variant |-> "none",
                  ty |-> best.ty]
        Chosen(best) ==
            IF best.variant = "none"
            THEN [result |-> "Panic", err |-> "No board was big enough",
                  variant |-> "none", ty |-> <<>>]
            ELSE Boxed(best, convert_in_build(game, best.ty, "Standard", dbg))
    IN Chosen(best_board(game.width, game.height, Len(game.snakes)))

(***************************************************************************)
(* core/cell_board/mod.rs: as_wrapped_cell_index.  The debug_asserts and   *)
(* the final panic are reported in `bad` and `panic`.                      *)
(***************************************************************************)
as_wrapped_cell_index(b, p) ==
    LET aw == get_actual_width(b)
        ah == get_actual_height(b)
        yin == p.y >= 0 /\ p.y < ah
        xin == p.x >= 0 /\ p.x < aw
    IN IF off_board(b, p)
       THEN IF p.x < 0
            THEN [idx |-> CellIndexNew([p EXCEPT !.x = aw - 1], width(b)),
                  bad |-> ~(p.x = -1 /\ yin), panic |-> FALSE]
            ELSE IF p.x >= aw
            THEN [idx |-> CellIndexNew([p EXCEPT !.x = 0], width(b)),
                  bad |-> ~(p.x = aw /\ yin), panic |-> FALSE]
            ELSE IF p.y < 0
            THEN [idx |-> CellIndexNew([p EXCEPT !.y = ah - 1], width(b)),
                  bad |-> ~(p.y = -1 /\ xin), panic |-> FALSE]
            ELSE IF p.y >= ah
            THEN [idx |-> CellIndexNew([p EXCEPT !.y = 0], width(b)),
                  bad |-> ~(p.y = ah /\ xin), panic |-> FALSE]
            ELSE [idx |-> 0, bad |-> FALSE, panic |-> TRUE]
       ELSE [idx |-> CellIndexNew(p, width(b)), bad |-> FALSE, panic |-> FALSE]

(***************************************************************************)
(* core/cell_board/eval.rs: generate_state                                 *)
(***************************************************************************)
Dead == [kind |-> "Dead"]

Panicked == [kind |-> "Panic"]

\* The neck loop (lines 112-125): Some(prev), None where get_next_index
\* fails (the panic), and "hang" where the walk never reaches the head.
RECURSIVE NeckWalk(_, _, _, _, _)
NeckWalk(b, curr, prv, old_head, fuel) ==
    IF curr = old_head THEN [kind |-> "Ok", neck |-> prv]
    ELSE IF fuel = 0 THEN [kind |-> "Hang", neck |-> prv]
    ELSE IF curr \notin DOMAIN b.cells THEN [kind |-> "Panic", neck |-> prv]
    ELSE LET nxt == get_next_index(get_cell(b, curr))
         IN IF ~nxt.some THEN [kind |-> "Panic", neck |-> prv]
            ELSE NeckWalk(b, nxt.v, curr, old_head, fuel - 1)

\* u8::wrapping_sub: the subtraction without saturation.
wrapping_sub(a, d) == (a - d) % 256

\* u8::saturating_sub, as used on the health (lines 140 and 142).
saturating_sub(a, d) == IF a >= d THEN a - d ELSE 0

\* The move to new_head with the health tested before the food is eaten.
MoveToCellStarvingFirst(b, id, old_head, old_tail, new_head) ==
    LET old_tail_cell == get_cell(b, old_tail)
        new_tail_opt == IF is_stacked(old_tail_cell) THEN Some(old_tail)
                        ELSE get_next_index(old_tail_cell)
        h1 == saturating_sub(b.healths[id], 1)
        h2 == IF is_hazard(get_cell(b, new_head))
              THEN saturating_sub(h1, b.hazard_damage)
              ELSE h1
        ate_food == is_food(get_cell(b, new_head))
    IN IF ~new_tail_opt.some \/ new_head \notin DOMAIN b.cells THEN Panicked
       ELSE IF h2 = 0 THEN Dead
       ELSE [kind |-> "Alive",
             id |-> id,
             old_head |-> old_head,
             new_head |-> new_head,
             old_tail |-> old_tail,
             new_tail |-> new_tail_opt.v,
             new_health |-> IF ate_food THEN MaxHealth ELSE h2,
             ate_food |-> ate_food,
             new_length |-> IF ate_food THEN b.lengths[id] + 1 ELSE b.lengths[id]]

\* Lines 130-167: the new tail, the health, the food and the length of a
\* move to new_head that is not the neck.
MoveToCell(b, id, old_head, old_tail, new_head) ==
    LET old_tail_cell == get_cell(b, old_tail)
        new_tail_opt == IF is_stacked(old_tail_cell) THEN Some(old_tail)
                        ELSE get_next_index(old_tail_cell)
        h1 == saturating_sub(b.healths[id], 1)
        h2 == IF is_hazard(get_cell(b, new_head))
              THEN saturating_sub(h1, b.hazard_damage)
              ELSE h1
        ate_food == is_food(get_cell(b, new_head))
        new_length == IF ate_food
                      THEN (IF b.lengths[id] + 1 > 65535 THEN 65535
                            ELSE b.lengths[id] + 1)
                      ELSE b.lengths[id]
        Result(new_health) ==
            IF new_health = 0 THEN Dead
            ELSE [kind |-> "Alive",
                  id |-> id,
                  old_head |-> old_head,
                  new_head |-> new_head,
                  old_tail |-> old_tail,
                  new_tail |-> new_tail_opt.v,
                  new_health |-> new_health,
                  ate_food |-> ate_food,
                  new_length |-> new_length]
    IN IF ~new_tail_opt.some \/ new_head \notin DOMAIN b.cells THEN Panicked
       ELSE Result(IF ate_food THEN MaxHealth ELSE h2)

\* The loop body without the neck test of lines 126-128.
MoveOntoNeck(b, id, old_head, old_tail, new_head) ==
    MoveToCell(b, id, old_head, old_tail, new_head)

\* Lines 110-128: the neck of the snake and the move into it.
MoveOffNeck(b, id, old_head, old_tail, new_head) ==
    LET Checked(walk) ==
            IF walk.kind = "Panic" THEN Panicked
            ELSE IF walk.kind = "Hang" THEN [kind |-> "Hang"]
            ELSE IF new_head = walk.neck THEN Dead
            ELSE MoveToCell(b, id, old_head, old_tail, new_head)
    IN Checked(NeckWalk(b, old_tail, old_tail, old_head, BoardSize(b)))

\* The body of the loop over one snake's moves (lines 85-167), for one move.
SingleMoveResult(b, id, m, evaluate_mode, dbg) ==
    LET old_head == b.heads[id]
        old_tail_opt == get_tail_position(get_cell(b, old_head), old_head)
        new_head_position == add_vec(into_position(old_head, width(b)), to_vector(m))
        Placed(wrapped) ==
            IF evaluate_mode = "Wrapped" /\ (wrapped.panic \/ (dbg /\ wrapped.bad))
            THEN Panicked
            ELSE IF evaluate_mode = "Standard" /\ off_board(b, new_head_position)
            THEN Dead
            ELSE MoveOffNeck(b, id, old_head, old_tail_opt.v,
                             IF evaluate_mode = "Wrapped" THEN wrapped.idx
                             ELSE CellIndexNew(new_head_position, width(b)))
    IN IF ~old_tail_opt.some THEN Panicked
       ELSE Placed(as_wrapped_cell_index(b, new_head_position))

\* A table is computed once, when it is built, and then only read (TLC
\* evaluates a function it compares).
Computed(f) == IF f = f THEN f ELSE f

\* A table whose entries for a snake are all computed for the first of its
\* candidates.
generate_for_first(b, moves, evaluate_mode, dbg) ==
    Computed(
    [id \in SnakeIds(b) |->
        [mi \in 0..(N_MOVES - 1) |->
            IF /\ b.healths[id] # 0
               /\ \E k \in DOMAIN moves :
                    /\ moves[k][1] = id
                    /\ \E j \in DOMAIN moves[k][2] : as_index(moves[k][2][j]) = mi
            THEN SingleMoveResult(b, id,
                    moves[CHOOSE k \in DOMAIN moves :
                            /\ moves[k][1] = id
                            /\ \E j \in DOMAIN moves[k][2] :
                                    as_index(moves[k][2][j]) = mi][2][1],
                    evaluate_mode, dbg)
            ELSE Dead]])

\* moves is a sequence of <<id, candidate moves>>; the table is indexed by
\* snake id and move index.  An entry computed twice has the same value.
generate_state(b, moves, evaluate_mode, dbg) ==
    Computed(
    [id \in SnakeIds(b) |->
        [mi \in 0..(N_MOVES - 1) |->
            IF /\ b.healths[id] # 0
               /\ \E k \in DOMAIN moves :
                    /\ moves[k][1] = id
                    /\ \E j \in DOMAIN moves[k][2] : as_index(moves[k][2][j]) = mi
            THEN SingleMoveResult(b, id, MoveAll[mi + 1], evaluate_mode, dbg)
            ELSE Dead]])

\* Whether generate_state returns at all.
GenerateOutcome(states) ==
    IF \E id \in DOMAIN states : \E mi \in DOMAIN states[id] : states[id][mi].kind = "Panic"
    THEN "panic"
    ELSE IF \E id \in DOMAIN states : \E mi \in DOMAIN states[id] : states[id][mi].kind = "Hang"
    THEN "hang"
    ELSE "ok"

(***************************************************************************)
(* core/cell_board/eval.rs: evaluate_moves_with_state.  m is the joint     *)
(* move, a sequence of <<id, move>>.  A work state is [b, bad, to_kill]:   *)
(* the board being built, whether a debug_assert failed on the way and the *)
(* snakes marked to die.                                                   *)
(***************************************************************************)
ResultOf(new_heads, m, k) == new_heads[m[k][1]][as_index(m[k][2])]

\* Lines 185-228: remove the old tails, apply health and length, grow.
PhaseAStep(w, r, id) ==
    IF r.kind = "Alive"
    THEN LET new0 == w.b
             old_tail_cell == get_cell(new0, r.old_tail)
             new1 == IF is_double_stacked_piece(old_tail_cell)
                     THEN set_cell_body_piece(new0, r.old_tail, r.id, old_tail_cell.idx)
                     ELSE set_cell_head(cell_remove(new0, r.old_tail),
                                        r.old_head, r.id, r.new_tail)
             new2 == [new1 EXCEPT !.healths[r.id] = r.new_health,
                                  !.lengths[r.id] = r.new_length]
             new3 == IF r.ate_food
                     THEN set_cell_double_stacked(new2, r.new_tail, r.id,
                                                  get_cell(new2, r.new_tail).idx)
                     ELSE new2
         IN [w EXCEPT !.b = new3]
    ELSE LET Killed(kr) == [w EXCEPT !.b = kr.b, !.bad = w.bad \/ kr.bad]
         IN Killed(kill_and_remove(w.b, id))

RECURSIVE PhaseA(_, _, _, _)
PhaseA(w, new_heads, m, k) ==
    IF k > Len(m) THEN w
    ELSE PhaseA(PhaseAStep(w, ResultOf(new_heads, m, k), m[k][1]), new_heads, m, k + 1)

\* The evaluator without the test of lines 236-246.
no_body_collisions(new, new_heads, m) == {}

\* Lines 233-246: the snakes whose new head is still a body segment or a head.
BodyCollisions(new, new_heads, m) ==
    {ResultOf(new_heads, m, k).id : k \in
        {j \in DOMAIN m :
            /\ ResultOf(new_heads, m, j).kind = "Alive"
            /\ LET new_head_cell == get_cell(new, ResultOf(new_heads, m, j).new_head)
               IN is_body_segment(new_head_cell) \/ is_head(new_head_cell)}}

\* Lines 233-246 on the work state.
PhaseB(w, new_heads, m) ==
    [w EXCEPT !.to_kill = BodyCollisions(w.b, new_heads, m)]

\* Lines 249-256: the positions of m's alive results, grouped by new head.
GroupAt(new_heads, m, pos) ==
    {k \in DOMAIN m : /\ ResultOf(new_heads, m, k).kind = "Alive"
                      /\ ResultOf(new_heads, m, k).new_head = pos}

head_to_head_collisions(new_heads, m) ==
    {pos \in {ResultOf(new_heads, m, k).new_head :
                k \in {j \in DOMAIN m : ResultOf(new_heads, m, j).kind = "Alive"}} :
        Cardinality(GroupAt(new_heads, m, pos)) >= 2}

GroupIds(new_heads, m, pos) ==
    {ResultOf(new_heads, m, k).id : k \in GroupAt(new_heads, m, pos)}

\* The length of the shortest agent of the group.
GroupMinLength(new, new_heads, m, pos) ==
    CHOOSE l \in {get_length(new, ResultOf(new_heads, m, k).id) :
                    k \in GroupAt(new_heads, m, pos)} :
        \A k \in GroupAt(new_heads, m, pos) :
            get_length(new, ResultOf(new_heads, m, k).id) >= l

GroupMaxLength(new, new_heads, m, pos) ==
    CHOOSE l \in {get_length(new, ResultOf(new_heads, m, k).id) :
                    k \in GroupAt(new_heads, m, pos)} :
        \A k \in GroupAt(new_heads, m, pos) :
            get_length(new, ResultOf(new_heads, m, k).id) <= l

\* The evaluator without the exception of lines 286-288.
never_on_another_snake(new, new_heads, m, pos) == FALSE

\* Lines 286-288
head_to_head_collision_on_another_snake(new, new_heads, m, pos) ==
    LET cell == get_cell(new, pos)
    IN /\ is_body_segment(cell)
       /\ ~is_head(cell)
       /\ cell.id \notin GroupIds(new_heads, m, pos)

\* The evaluator that always picks a winner among the longest.
never_multiple_max_length(new, new_heads, m, pos) == FALSE

\* Lines 290-294
multiple_snakes_max_length(new, new_heads, m, pos) ==
    Cardinality({k \in GroupAt(new_heads, m, pos) :
        get_length(new, ResultOf(new_heads, m, k).id)
            = GroupMaxLength(new, new_heads, m, pos)}) # 1

\* Lines 296-307: the winner's id, if there is one.
Winner(new, new_heads, m, pos) ==
    IF \/ multiple_snakes_max_length(new, new_heads, m, pos)
       \/ head_to_head_collision_on_another_snake(new, new_heads, m, pos)
    THEN None
    ELSE Some(ResultOf(new_heads, m,
            CHOOSE k \in GroupAt(new_heads, m, pos) :
                get_length(new, ResultOf(new_heads, m, k).id)
                    = GroupMaxLength(new, new_heads, m, pos)).id)

\* Lines 309-314: the group members that are not the winner.
HeadToHeadLosers(new, new_heads, m, pos) ==
    {id \in GroupIds(new_heads, m, pos) : Some(id) # Winner(new, new_heads, m, pos)}

\* Lines 258-319.  The groups sit on distinct cells and each reads only its
\* own cell and the lengths, so the map's iteration order does not matter.
RECURSIVE PhaseC(_, _, _, _)
PhaseC(w, new_heads, m, todo) ==
    IF todo = {} THEN w
    ELSE LET pos == CHOOSE p \in todo : TRUE
             new == w.b
             losers == HeadToHeadLosers(new, new_heads, m, pos)
             clear == /\ ~Winner(new, new_heads, m, pos).some
                      /\ ~head_to_head_collision_on_another_snake(new, new_heads, m, pos)
         IN PhaseC([w EXCEPT !.b = IF clear THEN cell_remove(new, pos) ELSE new,
                             !.to_kill = w.to_kill \cup losers],
                   new_heads, m, todo \ {pos})

\* Lines 321-349: kill the marked snakes, move the heads of the others.
\* old is the board evaluate_moves_with_state was called on.
PhaseDStep(w, old, r) ==
    IF r.kind # "Alive" THEN w
    ELSE IF r.id \in w.to_kill
    THEN LET Killed(kr) == [w EXCEPT !.b = kr.b, !.bad = w.bad \/ kr.bad]
         IN Killed(kill_and_remove(w.b, r.id))
    ELSE LET new1 == set_cell_head([w.b EXCEPT !.heads[r.id] = r.new_head],
                                   r.new_head, r.id, r.new_tail)
             old_head_cell == get_cell(old, r.old_head)
             new2 == IF is_triple_stacked_piece(old_head_cell)
                     THEN set_cell_double_stacked(new1, r.old_head, r.id, r.new_head)
                     ELSE set_cell_body_piece(new1, r.old_head, r.id, r.new_head)
         IN [w EXCEPT !.b = new2]

RECURSIVE PhaseD(_, _, _, _, _)
PhaseD(w, old, new_heads, m, k) ==
    IF k > Len(m) THEN w
    ELSE PhaseD(PhaseDStep(w, old, ResultOf(new_heads, m, k)),
                old, new_heads, m, k + 1)

\* The evaluator of a tick in which the agents without a move lose a point
\* of health as well.
evaluate_and_age(b, m, new_heads) ==
    LET built == PhaseD(PhaseC(PhaseB(PhaseA([b |-> b, bad |-> FALSE, to_kill |-> {}],
                                             new_heads, m, 1),
                                      new_heads, m),
                               new_heads, m, head_to_head_collisions(new_heads, m)),
                        b, new_heads, m, 1)
        Aged(w) ==
            [w EXCEPT !.b.healths =
                [i \in DOMAIN @ |->
                    IF @[i] > 1 /\ ~\E k \in DOMAIN m : m[k][1] = i
                    THEN @[i] - 1 ELSE @[i]]]
    IN Aged(built)

evaluate_moves_with_state(b, m, new_heads) ==
    PhaseD(PhaseC(PhaseB(PhaseA([b |-> b, bad |-> FALSE, to_kill |-> {}],
                                new_heads, m, 1),
                         new_heads, m),
                  new_heads, m, head_to_head_collisions(new_heads, m)),
           b, new_heads, m, 1)

\* compact_representation/eval.rs, lines 31-39: the table is generated
\* for the joint move alone.
evaluate_moves(b, m, evaluate_mode, dbg) ==
    evaluate_moves_with_state(b, m,
        generate_state(b, [k \in DOMAIN m |-> <<m[k][1], <<m[k][2]>> >>],
                       evaluate_mode, dbg))

\* An Action without any move.
collect_nothing(m, max_snakes) == [i \in 0..(max_snakes - 1) |-> None]

(***************************************************************************)
(* types.rs: Action::collect_from                                          *)
(***************************************************************************)
collect_from(m, max_snakes) ==
    [i \in 0..(max_snakes - 1) |->
        IF \E k \in DOMAIN m : m[k][1] = i
        THEN Some(m[CHOOSE k \in DOMAIN m :
                        m[k][1] = i /\ \A j \in DOMAIN m : m[j][1] = i => j <= k][2])
        ELSE None]

(***************************************************************************)
(* core/simulate.rs: simulate_with_moves.  snake_ids_and_moves is a        *)
(* sequence of <<id, candidate moves>>.                                    *)
(***************************************************************************)
\* The filter with the last candidate as the one kept when none is left.
FilteredOrLast(states, entry) ==
    LET snake_id == entry[1]
        mvs == SelectSeq(entry[2],
                 LAMBDA mv : states[snake_id][as_index(mv)].kind # "Dead")
    IN IF mvs = <<>> THEN <<entry[2][Len(entry[2])]>> ELSE mvs

\* Lines 53-63: one snake's candidates that are not dead in the table, or
\* the first candidate when none is left.
FilteredMoves(states, entry) ==
    LET snake_id == entry[1]
        mvs == SelectSeq(entry[2],
                 LAMBDA mv : states[snake_id][as_index(mv)].kind # "Dead")
    IN IF mvs = <<>> THEN <<entry[2][1]>> ELSE mvs

\* The joint moves with the snakes in the opposite order to the list.
RECURSIVE reversed_cartesian_product(_, _)
reversed_cartesian_product(states, list) ==
    IF list = <<>> THEN << <<>> >>
    ELSE LET front == reversed_cartesian_product(states, SubSeq(list, 1, Len(list) - 1))
             l == list[Len(list)]
             mine == FilteredMoves(states, l)
             n == Len(mine)
         IN Computed([k \in 1..(Len(front) * n) |->
                << <<l[1], mine[((k - 1) % n) + 1]>> >> \o front[((k - 1) \div n) + 1]])

\* multi_cartesian_product: the joint moves, the last snake's move varying
\* fastest.
RECURSIVE multi_cartesian_product(_, _)
multi_cartesian_product(states, list) ==
    IF list = <<>> THEN << <<>> >>
    ELSE LET front == multi_cartesian_product(states, SubSeq(list, 1, Len(list) - 1))
             l == list[Len(list)]
             mine == FilteredMoves(states, l)
             n == Len(mine)
         IN Computed([k \in 1..(Len(front) * n) |->
                Append(front[((k - 1) \div n) + 1], <<l[1], mine[((k - 1) % n) + 1]>>)])

\* Lines 66-77: one element of the result iterator.
SimulateOne(b, states, m, dbg) ==
    LET Checked(game, bad, consistent) ==
            [status |-> IF dbg /\ bad THEN "panic"
                        ELSE IF consistent = "hang" THEN "hang"
                        ELSE IF consistent = "bad" THEN "panic"
                        ELSE "ok",
             action |-> collect_from(m, MaxSnakes(b)),
             game |-> game,
             m |-> m]
        Built(w) == Checked(w.b, w.bad, assert_consistency(w.b))
    IN Built(evaluate_moves_with_state(b, m, states))

\* Lines 66-77: the elements of the result iterator, in order.
results(b, states, ids_and_moves_product, dbg) ==
    Computed([k \in 1..Len(ids_and_moves_product) |->
                SimulateOne(b, states, ids_and_moves_product[k], dbg)])

\* Lines 41-77, on the table generate_state returned.
simulate_with_states(b, snake_ids_and_moves, states, dbg) ==
    IF GenerateOutcome(states) # "ok"
    THEN [status |-> GenerateOutcome(states), results |-> <<>>]
    ELSE IF \E k \in DOMAIN snake_ids_and_moves : snake_ids_and_moves[k][2] = <<>>
    THEN [status |-> "panic", results |-> <<>>]
    ELSE [status |-> "ok",
          results |-> results(b, states,
                              multi_cartesian_product(states, snake_ids_and_moves),
                              dbg)]

\* The call as a whole: [status, results].  It does not return when
\* generate_state does not, or when a candidate list is empty (line 52).
simulate_with_moves(b, snake_ids_and_moves, evaluate_mode, dbg) ==
    simulate_with_states(b, snake_ids_and_moves,
                         generate_state(b, snake_ids_and_moves, evaluate_mode, dbg),
                         dbg)

(***************************************************************************)
(* The games the boards are converted from.  Each is a position of a game  *)
(* played by the rules: bodies are paths of adjacent squares, stacked only *)
(* on the spawn square (turn 0), under the head's successor (turn 1) or on *)
(* the tail (after eating); food lies on free squares.                     *)
(***************************************************************************)
Snake(h, body) == [health |-> h, body |-> body]

Game(w, h, snakes, food, hazards) ==
    [width |-> w, height |-> h, snakes |-> snakes, food |-> food,
     hazards |-> hazards, hazard_damage |-> DefaultHazardDamage,
     ruleset |-> "standard"]

\* A game of the wrapped ruleset.
WrappedGame(w, h, snakes, food, hazards) ==
    [Game(w, h, snakes, food, hazards) EXCEPT !.ruleset = "wrapped"]

Spawn(px, py) == <<Pos(px, py), Pos(px, py), Pos(px, py)>>

\* CellBoard<u8, Square, {3 * 3}, 2>, <u8, Square, {3 * 3}, 3> and
\* <u8, Square, {4 * 4}, 3>
Duel3 == [board_size |-> 9, max_snakes |-> 2, dims |-> "Square"]

Square3 == [board_size |-> 9, max_snakes |-> 3, dims |-> "Square"]

Square4 == [board_size |-> 16, max_snakes |-> 3, dims |-> "Square"]

\* CellBoard<u8, Square, {4 * 4}, 4>
Four4 == [board_size |-> 16, max_snakes |-> 4, dims |-> "Square"]

\* Turn 0, two snakes two squares apart, food between them and above one.
StartWithFood ==
    Game(3, 3, <<Snake(100, Spawn(0, 0)), Snake(100, Spawn(2, 0))>>,
         {Pos(1, 0), Pos(2, 1)}, {})

\* Turn 0, three snakes in a row.
StartThree ==
    Game(3, 3, <<Snake(100, Spawn(0, 0)), Snake(100, Spawn(1, 0)),
                 Snake(100, Spawn(2, 0))>>, {}, {})

\* Mid-game, lengths 4 and 3, heads both next to the free centre square;
\* the longer snake's tail lies next to the shorter one's head.  Snake 1 is
\* almost starved, the top-left and the centre square are hazards.
MidGame ==
    Game(3, 3, <<Snake(17, <<Pos(0, 1), Pos(0, 0), Pos(1, 0), Pos(2, 0)>>),
                 Snake(2, <<Pos(2, 1), Pos(2, 2), Pos(1, 2)>>)>>,
         {}, {Pos(0, 2), Pos(1, 1)})

\* The same position with food on the centre square and a stacked tail on
\* the longer snake (it has just eaten).
MidGameFood ==
    Game(3, 3, <<Snake(100, <<Pos(0, 1), Pos(0, 0), Pos(1, 0), Pos(1, 0)>>),
                 Snake(50, <<Pos(2, 1), Pos(2, 2), Pos(1, 2)>>)>>,
         {Pos(1, 1)}, {})

\* Two snakes of length 3 inside a hazard area: the food on the centre
\* square, a body square of snake 0 and one of snake 1 are hazards.
HazardFood ==
    Game(3, 3, <<Snake(100, <<Pos(0, 1), Pos(0, 0), Pos(1, 0)>>),
                 Snake(50, <<Pos(2, 1), Pos(2, 2), Pos(1, 2)>>)>>,
         {Pos(1, 1)}, {Pos(1, 1), Pos(0, 0), Pos(2, 2)})

\* Two snakes of length 3 on their last health: snake 0 has 1 left, snake 1
\* as much as one step into a hazard costs.  The food on the centre square
\* lies in the hazard, next to both heads.
LastBite ==
    Game(3, 3, <<Snake(1, <<Pos(0, 1), Pos(0, 0), Pos(1, 0)>>),
                 Snake(16, <<Pos(2, 1), Pos(2, 2), Pos(1, 2)>>)>>,
         {Pos(1, 1)}, {Pos(1, 1)})

\* A snake of length 2 and one of length 3, heads both next to the food on
\* the centre square.
ShortSnake ==
    Game(3, 3, <<Snake(80, <<Pos(0, 1), Pos(0, 0)>>),
                 Snake(80, <<Pos(2, 1), Pos(2, 2), Pos(1, 2)>>)>>,
         {Pos(1, 1)}, {})

\* Three snakes on a 4x4 board: the heads of snakes 0 and 2 are both next
\* to the middle segment of snake 1.  Snake 2 is the longest.
ThreeOnFour ==
    Game(4, 4, <<Snake(90, <<Pos(0, 2), Pos(0, 1), Pos(0, 0)>>),
                 Snake(90, <<Pos(1, 3), Pos(1, 2), Pos(1, 1)>>),
                 Snake(90, <<Pos(2, 2), Pos(2, 1), Pos(2, 0), Pos(3, 0)>>)>>,
         {}, {})

\* The same with three snakes of one length.
ThreeOnFourEqual ==
    Game(4, 4, <<Snake(90, <<Pos(0, 2), Pos(0, 1), Pos(0, 0)>>),
                 Snake(90, <<Pos(1, 3), Pos(1, 2), Pos(1, 1)>>),
                 Snake(90, <<Pos(2, 2), Pos(2, 1), Pos(2, 0)>>)>>,
         {}, {})

\* Four snakes on a 4x4 board: snakes 0 (length 4) and 1 (length 3) are
\* both next to the free square (2,1); snakes 2 and 3 (length 3) are both
\* next to the head of snake 1.
FourOnFour ==
    Game(4, 4, <<Snake(90, <<Pos(2, 0), Pos(3, 0), Pos(3, 1), Pos(3, 2)>>),
                 Snake(90, <<Pos(1, 1), Pos(1, 0), Pos(0, 0)>>),
                 Snake(90, <<Pos(0, 1), Pos(0, 2), Pos(0, 3)>>),
                 Snake(90, <<Pos(1, 2), Pos(1, 3), Pos(2, 3)>>)>>,
         {}, {})

\* A 3x4 board of stored dimensions (CellBoard<u8, Custom, 12, 2>).
Tall3x4 == [board_size |-> 12, max_snakes |-> 2, dims |-> "Custom"]

\* A wrapped 3x3 game with one snake at its spawn in the centre.
WrapLone == WrappedGame(3, 3, <<Snake(90, Spawn(1, 1))>>, {}, {})

\* A wrapped game 3 wide and 4 high: snake 0 fills the bottom row with its
\* head in the left column, snake 1 lies in the upper rows; there is food
\* in the right column and a hazard in the left one.
WrapTall ==
    WrappedGame(3, 4, <<Snake(90, <<Pos(0, 0), Pos(1, 0), Pos(2, 0)>>),
                        Snake(90, <<Pos(1, 2), Pos(1, 3), Pos(2, 3)>>)>>,
                {Pos(2, 1)}, {Pos(0, 2)})

\* A wrapped 3x3 game: the body of snake 0 crosses the left edge (its neck
\* is the square its head reaches by moving Left and wrapping), the body
\* of snake 1 crosses the bottom edge.
WrapDuel ==
    WrappedGame(3, 3, <<Snake(90, <<Pos(0, 1), Pos(2, 1), Pos(2, 2)>>),
                        Snake(90, <<Pos(1, 0), Pos(1, 2), Pos(0, 2)>>)>>,
                {}, {})

\* Each game with the board type and adapter it is converted by, the
\* builds (debug assertions on or off) it is run under and the number of
\* successive calls explored from it.
Fixtures ==
    { [game |-> StartWithFood, ty |-> Square3, mode |-> "Standard", builds |-> BOOLEAN,
       calls |-> MaxTurns],
      [game |-> StartThree, ty |-> Square3, mode |-> "Standard", builds |-> {FALSE},
       calls |-> MaxTurns],
      [game |-> MidGame, ty |-> Duel3, mode |-> "Standard", builds |-> {FALSE},
       calls |-> MaxTurns],
      [game |-> MidGameFood, ty |-> Duel3, mode |-> "Standard", builds |-> {FALSE},
       calls |-> MaxTurns],
      [game |-> ShortSnake, ty |-> Duel3, mode |-> "Standard", builds |-> {FALSE},
       calls |-> MaxTurns],
      [game |-> HazardFood, ty |-> Duel3, mode |-> "Standard", builds |-> {FALSE},
       calls |-> MaxTurns - 1],
      [game |-> LastBite, ty |-> Duel3, mode |-> "Standard", builds |-> {FALSE},
       calls |-> MaxTurns - 1],
      [game |-> ThreeOnFour, ty |-> Square4, mode |-> "Standard", builds |-> {FALSE},
       calls |-> MaxTurns - 1],
      [game |-> ThreeOnFourEqual, ty |-> Square4, mode |-> "Standard", builds |-> {FALSE},
       calls |-> MaxTurns - 1],
      [game |-> FourOnFour, ty |-> Four4, mode |-> "Standard", builds |-> {FALSE},
       calls |-> MaxTurns - 1],
      [game |-> WrapDuel, ty |-> Duel3, mode |-> "Wrapped", builds |-> BOOLEAN,
       calls |-> MaxTurns] }

(***************************************************************************)
(* The inputs of simulate_with_moves: the ids of any non-empty set of      *)
(* snake slots in ascending order (dead snakes may be named, alive ones    *)
(* left out), with either all four moves for everyone (simulate) or one    *)
(* move each; a single snake may also be given no move at all.             *)
(***************************************************************************)
RECURSIVE Ascending(_)
Ascending(ids) ==
    IF ids = {} THEN <<>>
    ELSE LET lo == CHOOSE i \in ids : \A j \in ids : i <= j
         IN <<lo>> \o Ascending(ids \ {lo})

MoveLists(b) ==
    LET idseqs == {Ascending(ids) : ids \in (SUBSET SnakeIds(b)) \ {{}}}
    IN UNION { {[k \in DOMAIN q |-> <<q[k], MoveAll>>]}
               \cup {[k \in DOMAIN q |-> <<q[k], <<ch[k]>> >>] : ch \in [DOMAIN q -> Moves]}
               \cup (IF Len(q) = 1 THEN { << <<q[1], <<>> >> >> } ELSE {})
             : q \in idseqs }

(***************************************************************************)
(* The state machine.                                                      *)
(***************************************************************************)
NoCall == [op |-> "convert", list |-> <<>>, m |-> <<>>, action |-> <<>>, game |-> <<>>]

InitFrom(fixtures) ==
    \E f \in fixtures :
        \E conv \in {adapter_convert_from_game(f.game, f.ty, f.mode)} :
            /\ conv.result = "Ok"
            /\ board = conv.b
            /\ prev = conv.b
            /\ mode = f.mode
            /\ debug \in f.builds
            /\ turn = MaxTurns - f.calls
    /\ last = NoCall
    /\ status = "ok"

Init == InitFrom(Fixtures)

\* One call of simulate_with_moves; the caller takes the k-th successor,
\* having taken (and so evaluated) the ones before it.  last records the
\* call: the list passed, the joint move m, its Action and the board the
\* evaluator built for m (returned only when it is consistent).
Simulate ==
    /\ status = "ok"
    /\ turn < MaxTurns
    /\ \E list \in MoveLists(board) :
        \E sim \in {simulate_with_moves(board, list, mode, debug)} :
            IF sim.status # "ok"
            THEN /\ status' = sim.status
                 /\ last' = [op |-> "simulate", list |-> list, m |-> <<>>,
                             action |-> <<>>, game |-> <<>>]
                 /\ board' = board
            ELSE \E k \in DOMAIN sim.results :
                 LET r == sim.results[k]
                 IN /\ \A j \in 1..(k - 1) : sim.results[j].status = "ok"
                    /\ status' = r.status
                    /\ last' = [op |-> "simulate", list |-> list, m |-> r.m,
                                action |-> r.action, game |-> r.game]
                    /\ board' = IF r.status = "ok" THEN r.game ELSE board
    /\ prev' = board
    /\ turn' = turn + 1
    /\ UNCHANGED <<mode, debug>>

Next == Simulate

Spec == Init /\ [][Next]_vars

(***************************************************************************)
(* core/simulate.rs: a call of simulate_with_moves whose iterator is       *)
(* drained.  The caller names the snakes in any order and gives each a     *)
(* slice of candidate moves; last keeps the list and every element the     *)
(* iterator yielded, in order.  The caller then goes on from one of the    *)
(* successors.                                                             *)
(***************************************************************************)
CandidateSlices == {MoveAll, <<"Right", "Up">>, <<"Down", "Left">>, <<"Left">>}

RECURSIVE Orders(_)
Orders(ids) ==
    IF ids = {} THEN {<<>>}
    ELSE UNION { {<<i>> \o q : q \in Orders(ids \ {i})} : i \in ids }

OrderedLists(b) ==
    UNION { {[k \in DOMAIN q |-> <<q[k], ch[k]>>] : ch \in [DOMAIN q -> CandidateSlices]}
          : q \in UNION {Orders(ids) : ids \in (SUBSET SnakeIds(b)) \ {{}}} }

EnumFixtures ==
    { [game |-> StartWithFood, ty |-> Square3, mode |-> "Standard", builds |-> {FALSE},
       calls |-> MaxTurns],
      [game |-> StartThree, ty |-> Square3, mode |-> "Standard", builds |-> {FALSE},
       calls |-> MaxTurns - 1],
      [game |-> MidGame, ty |-> Duel3, mode |-> "Standard", builds |-> {FALSE},
       calls |-> MaxTurns],
      [game |-> MidGameFood, ty |-> Duel3, mode |-> "Standard", builds |-> {FALSE},
       calls |-> MaxTurns],
      [game |-> ThreeOnFourEqual, ty |-> Square4, mode |-> "Standard", builds |-> {FALSE},
       calls |-> MaxTurns - 1],
      [game |-> WrapDuel, ty |-> Duel3, mode |-> "Wrapped", builds |-> {FALSE},
       calls |-> MaxTurns] }

EnumInit == InitFrom(EnumFixtures)

\* The status the drained iterator leaves: the first element that did not
\* come back ends the drain.
Drained(sim) ==
    IF sim.status # "ok" THEN sim.status
    ELSE IF \A k \in DOMAIN sim.results : sim.results[k].status = "ok" THEN "ok"
    ELSE sim.results[CHOOSE k \in DOMAIN sim.results :
                        /\ sim.results[k].status # "ok"
                        /\ \A j \in 1..(k - 1) : sim.results[j].status = "ok"].status

Enumerate ==
    /\ status = "ok"
    /\ turn < MaxTurns
    /\ last.op # "enumerate"
    /\ \E list \in OrderedLists(board) :
        \E sim \in {simulate_with_moves(board, list, mode, debug)} :
            /\ status' = Drained(sim)
            /\ last' = [op |-> "enumerate", list |-> list, results |-> sim.results]
    /\ prev' = board
    /\ turn' = turn + 1
    /\ UNCHANGED <<board, mode, debug>>

Take ==
    /\ status = "ok"
    /\ turn < MaxTurns
    /\ last.op = "enumerate"
    /\ \E k \in DOMAIN last.results :
            board' = last.results[k].game
    /\ last' = [op |-> "take", list |-> <<>>, results |-> <<>>]
    /\ prev' = board
    /\ UNCHANGED <<status, mode, debug, turn>>

EnumNext == Enumerate \/ Take

EnumSpec == EnumInit /\ [][EnumNext]_vars

(***************************************************************************)
(* wrapped/mod.rs run_move_test: a rollout on a wrapped board.  Every call *)
(* gives the one direction last.mv to each snake it lists and the caller   *)
(* takes the first successor (collect_vec()[0]).  prev stays the board the *)
(* rollout started from, turn counts the calls, and last.run[i] says that  *)
(* snake i was alive at the start, has been listed in every call so far    *)
(* and is still alive.                                                     *)
(***************************************************************************)
MaxRollout == 7

WrapFixtures ==
    { [game |-> WrapLone, ty |-> Duel3],
      [game |-> WrapDuel, ty |-> Duel3],
      [game |-> WrapTall, ty |-> Tall3x4],
      [game |-> WrapLone, ty |-> Four4] }

RolloutLists(b, mv) ==
    {[k \in DOMAIN q |-> <<q[k], <<mv>> >>] :
        q \in {Ascending(ids) : ids \in (SUBSET SnakeIds(b)) \ {{}}}}

WrapInit ==
    /\ \E f \in WrapFixtures :
        \E conv \in {adapter_convert_from_game(f.game, f.ty, "Wrapped")} :
            /\ conv.result = "Ok"
            /\ board = conv.b
            /\ prev = conv.b
            /\ \E mv \in Moves :
                last = [op |-> "rollout", mv |-> mv,
                        run |-> [i \in SnakeIds(conv.b) |-> conv.b.healths[i] > 0]]
    /\ mode = "Wrapped"
    /\ debug \in BOOLEAN
    /\ turn = 0
    /\ status = "ok"

Rollout ==
    /\ status = "ok"
    /\ turn < MaxRollout
    /\ \E list \in RolloutLists(board, last.mv) :
        \E sim \in {simulate_with_moves(board, list, mode, debug)} :
            IF sim.status # "ok" \/ sim.results = <<>>
            THEN /\ status' = (IF sim.status # "ok" THEN sim.status ELSE "panic")
                 /\ UNCHANGED <<board, last>>
            ELSE /\ status' = sim.results[1].status
                 /\ IF sim.results[1].status = "ok"
                    THEN /\ board' = sim.results[1].game
                         /\ last' = [last EXCEPT !.run =
                                [i \in DOMAIN @ |->
                                    /\ @[i]
                                    /\ \E k \in DOMAIN list : list[k][1] = i
                                    /\ sim.results[1].game.healths[i] > 0]]
                    ELSE UNCHANGED <<board, last>>
    /\ turn' = turn + 1
    /\ UNCHANGED <<mode, debug, prev>>

WrapNext == Rollout

WrapSpec == WrapInit /\ [][WrapNext]_vars

(***************************************************************************)
(* Packing: on any board the program holds, RoundTrip packs the board,     *)
(* unpacks the map into a board of the same type and packs that again.     *)
(* last holds the first map and the second one (when the unpacking         *)
(* returned), board becomes the unpacked board.                            *)
(***************************************************************************)
\* A 3x4 board of fixed dimensions (CellBoard<u8, Fixed<3, 4>, 12, 2>), as
\* the ArcadeMaze board is one of Fixed<19, 21>.
Maze3x4 == [board_size |-> 12, max_snakes |-> 2, dims |-> "Fixed"]

\* The game of WrapTall under the standard rules.
TallGame == [WrapTall EXCEPT !.ruleset = "standard"]

PackFixtures ==
    { [game |-> MidGame, ty |-> Duel3, mode |-> "Standard", builds |-> BOOLEAN,
       calls |-> MaxTurns - 1],
      [game |-> StartWithFood, ty |-> Square3, mode |-> "Standard", builds |-> BOOLEAN,
       calls |-> MaxTurns - 1],
      [game |-> WrapDuel, ty |-> Duel3, mode |-> "Wrapped", builds |-> BOOLEAN,
       calls |-> MaxTurns - 1],
      [game |-> WrapTall, ty |-> Tall3x4, mode |-> "Wrapped", builds |-> BOOLEAN,
       calls |-> MaxTurns - 1],
      [game |-> TallGame, ty |-> Maze3x4, mode |-> "Standard", builds |-> BOOLEAN,
       calls |-> MaxTurns - 1] }

PackInit == InitFrom(PackFixtures)

RoundTrip ==
    /\ status = "ok"
    /\ \E back \in {from_packed_hash(pack_as_hash(board), board, debug)} :
        IF back.result = "Ok"
        THEN /\ last' = [op |-> "round_trip", hash |-> pack_as_hash(board),
                         again |-> pack_as_hash(back.b)]
             /\ board' = back.b
             /\ status' = "ok"
        ELSE /\ last' = [op |-> "round_trip", hash |-> pack_as_hash(board),
                         again |-> <<>>]
             /\ board' = board
             /\ status' = "panic"
    /\ prev' = board
    /\ UNCHANGED <<mode, debug, turn>>

PackNext == Simulate \/ RoundTrip

PackSpec == PackInit /\ [][PackNext]_vars

(***************************************************************************)
(* The conversions on their own: a snapshot, a board type, a constructor   *)
(* (mode) and a build are drawn, and Convert applies the constructor.      *)
(* last holds the snapshot and the board type, status the outcome ("Ok",   *)
(* "Err" or "Panic") and board the board returned, if any.                 *)
(***************************************************************************)
MaxSnapshotSnakes == 3

SnapshotSides == {3, 4, 65536}

\* Bodies, head first: a spawn, a tail stacked three times behind a head,
\* a head stacked four times in front of a tail, and a straight snake.
StackAndMore == <<Pos(1, 0), Pos(0, 0), Pos(0, 0), Pos(0, 0)>>

FourAndMore == <<Pos(0, 0), Pos(0, 0), Pos(0, 0), Pos(0, 0), Pos(1, 0)>>

Straight == <<Pos(0, 1), Pos(1, 1), Pos(2, 1)>>

SnapshotSnakes ==
    {Snake(90, body) : body \in {Spawn(0, 0), StackAndMore, FourAndMore, Straight}}

Snapshots ==
    UNION { {[Game(w, h, snakes, {}, {}) EXCEPT !.ruleset = r] :
                snakes \in [1..n -> SnapshotSnakes]} :
            w \in SnapshotSides, h \in SnapshotSides,
            r \in {"standard", "wrapped"}, n \in 0..MaxSnapshotSnakes }

BoardTypes == {Duel3, Tall3x4, Four4}

NoBoard == <<>>

ConvInit ==
    /\ \E g \in Snapshots, ty \in BoardTypes :
        last = [op |-> "snapshot", game |-> g, ty |-> ty, err |-> ""]
    /\ mode \in {"Standard", "Wrapped"}
    /\ debug \in BOOLEAN
    /\ board = NoBoard
    /\ prev = NoBoard
    /\ status = "pending"
    /\ turn = 0

Convert ==
    /\ last.op = "snapshot"
    /\ \E conv \in {convert_in_build(last.game, last.ty, mode, debug)} :
        /\ status' = conv.result
        /\ board' = IF conv.result = "Ok" THEN conv.b ELSE NoBoard
        /\ last' = [last EXCEPT !.op = "converted", !.err = conv.err]
    /\ turn' = turn + 1
    /\ UNCHANGED <<mode, debug, prev>>

ConvNext == Convert

ConvSpec == ConvInit /\ [][ConvNext]_vars

(***************************************************************************)
(* to_best_cell_board on its own: a snapshot and a build are drawn and     *)
(* ToBest applies the function.  last holds the snapshot, the variant      *)
(* returned and its board type, status the outcome, board the board inside *)
(* the variant.  Every snake is a spawn within the first rows, so every    *)
(* cell index written is below 256 and the same for u8 and u16 boards.     *)
(***************************************************************************)
BestSides == {5, 7, 11, 12, 15, 19, 21, 25, 50, 51}

BestSnakeCounts == {2, 5, 9, 17}

SpawnedSnakes(n, w) ==
    [k \in 1..n |-> Snake(90, Spawn((k - 1) % w, (k - 1) \div w))]

BestSnapshots ==
    {[Game(w, h, SpawnedSnakes(n, w), {}, {}) EXCEPT !.ruleset = r] :
        w \in BestSides, h \in BestSides, n \in BestSnakeCounts,
        r \in {"standard", "wrapped"}}

BestInit ==
    /\ \E g \in BestSnapshots :
        last = [op |-> "snapshot", game |-> g, variant |-> "none", ty |-> <<>>,
                err |-> ""]
    /\ mode = "Standard"
    /\ debug \in BOOLEAN
    /\ board = NoBoard
    /\ prev = NoBoard
    /\ status = "pending"
    /\ turn = 0

ToBest ==
    /\ last.op = "snapshot"
    /\ \E best \in {to_best_cell_board(last.game, debug)} :
        /\ status' = best.result
        /\ board' = IF best.result = "Ok" THEN best.b ELSE NoBoard
        /\ last' = [last EXCEPT !.op = "best", !.variant = best.variant,
                                !.ty = best.ty, !.err = best.err]
    /\ turn' = turn + 1
    /\ UNCHANGED <<mode, debug, prev>>

BestNext == ToBest

BestSpec == BestInit /\ [][BestNext]_vars

(***************************************************************************)
(* wire_representation/simulator.rs: the Simulator on the snapshot itself. *)
(* A snapshot keeps one entry per snake of the id map; the entry of a      *)
(* snake that board.snakes no longer holds is Absent.  The first snake is  *)
(* "you".                                                                  *)
(***************************************************************************)
HAZARD_DAMAGE == 15

Absent == [health |-> 0, body |-> <<>>]

\* wire_representation/mod.rs, Game::snake_ids
snake_ids(g) == {k \in DOMAIN g.snakes : g.snakes[k] # Absent}

\* wire_representation/mod.rs, Game::off_board
game_off_board(g, position) ==
    \/ position.x < 0
    \/ position.x >= g.width
    \/ position.y < 0
    \/ position.y >= g.height

InBody(body, p) == \E k \in DOMAIN body : body[k] = p

\* Lines 165-200: "None" for the move into body[1], else the moved snake
\* and whether it is Ok or Dead.
forward_simulate(g, s, mv) ==
    LET old_head == s.body[1]
        new_head == add_vec(old_head, to_vector(mv))
        popped == SubSeq(s.body, 1, Len(s.body) - 1)
        ate == new_head \in g.food
        grown == IF ate THEN Append(popped, popped[Len(popped)]) ELSE popped
        health == IF ate THEN 100 ELSE s.health - 1
        after == IF new_head \in g.hazards THEN health - HAZARD_DAMAGE ELSE health
    IN IF s.body[2] = new_head THEN [kind |-> "None", snake |-> s]
       ELSE IF game_off_board(g, new_head)
       THEN [kind |-> "Dead", snake |-> [health |-> s.health, body |-> popped]]
       ELSE IF new_head = old_head \/ InBody(grown, new_head)
       THEN [kind |-> "Dead", snake |-> [health |-> health, body |-> grown]]
       ELSE IF after <= 0
       THEN [kind |-> "Dead", snake |-> [health |-> after, body |-> <<new_head>> \o grown]]
       ELSE [kind |-> "Ok", snake |-> [health |-> after, body |-> <<new_head>> \o grown]]

\* Lines 99-160: the game built for one element of the cross product; ch
\* gives every simulated snake its move.
SimulatedGame(g, ch) ==
    LET res == [k \in DOMAIN ch |-> forward_simulate(g, g.snakes[k], ch[k])]
        ok == {k \in DOMAIN ch : res[k].kind = "Ok"}
        HeadAt(k) == res[k].snake.body[1]
        Killed(k) == \E j \in ok \ {k} :
                      IF HeadAt(j) = HeadAt(k)
                      THEN Len(res[k].snake.body) <= Len(res[j].snake.body)
                      ELSE InBody(res[j].snake.body, HeadAt(k))
    IN IF res[1].kind = "Dead"
       THEN [g EXCEPT !.snakes = [@ EXCEPT ![1] = Absent]]
       ELSE [g EXCEPT !.snakes = [k \in DOMAIN g.snakes |->
                                     IF k \in ok /\ ~Killed(k) THEN res[k].snake
                                     ELSE Absent],
                      !.food = g.food \ {HeadAt(k) : k \in ok}]

\* Lines 72-163 for Simulator::simulate (all four moves for every snake of
\* ids): the set of (moves, game) pairs returned.
wire_simulate(g, ids) ==
    { [moves |-> ch, game |-> SimulatedGame(g, ch)] :
        ch \in {c \in [ids -> Moves] :
                  \A k \in ids : forward_simulate(g, g.snakes[k], c[k]).kind # "None"} }

(***************************************************************************)
(* compact_representation/mod.rs test_simulation_equivalents: a snapshot   *)
(* and the board converted from it are simulated side by side for all four *)
(* moves of every snake, and the comparison goes on from a successor pair  *)
(* of one joint move.  last holds the snapshot, its board type and the two *)
(* result lists.                                                           *)
(***************************************************************************)
MaxPly == 2

WireFixtures ==
    { [game |-> StartWithFood, ty |-> Square3],
      [game |-> MidGame, ty |-> Duel3],
      [game |-> MidGameFood, ty |-> Duel3],
      [game |-> ShortSnake, ty |-> Duel3],
      [game |-> ThreeOnFour, ty |-> Square4],
      [game |-> ThreeOnFourEqual, ty |-> Square4],
      [game |-> StartThree, ty |-> Square3],
      [game |-> TallGame, ty |-> Tall3x4] }

WireInit ==
    /\ \E f \in WireFixtures :
        \E conv \in {convert_from_game(f.game, f.ty)} :
            /\ conv.result = "Ok"
            /\ board = conv.b
            /\ prev = conv.b
            /\ last = [op |-> "snapshot", game |-> f.game, ty |-> f.ty,
                       wire |-> {}, compact |-> <<>>]
    /\ mode = "Standard"
    /\ debug = FALSE
    /\ status = "ok"
    /\ turn = 0

\* get_snake_ids of the board with Move::all() for each (types.rs 263-273)
FullMoveSet(b) ==
    LET ids == Ascending({i \in SnakeIds(b) : b.healths[i] > 0})
    IN [k \in DOMAIN ids |-> <<ids[k], MoveAll>>]

\* The moves of a wire result as the key of a compact joint move.
SameMoves(ch, m) ==
    /\ DOMAIN ch = {m[j][1] + 1 : j \in DOMAIN m}
    /\ \A j \in DOMAIN m : ch[m[j][1] + 1] = m[j][2]

SimulateBoth ==
    /\ status = "ok"
    /\ last.op = "snapshot"
    /\ \E sim \in {simulate_with_moves(board, FullMoveSet(board), mode, debug)} :
        /\ status' = Drained(sim)
        /\ last' = [last EXCEPT !.op = "compare",
                                !.wire = wire_simulate(last.game, snake_ids(last.game)),
                                !.compact = sim.results]
    /\ prev' = board
    /\ UNCHANGED <<board, mode, debug, turn>>

Descend ==
    /\ status = "ok"
    /\ last.op = "compare"
    /\ turn < MaxPly
    /\ \E k \in DOMAIN last.compact :
        \E w \in last.wire :
            /\ SameMoves(w.moves, last.compact[k].m)
            /\ last.compact[k].game.healths[0] > 0
            /\ w.game.snakes[1] # Absent
            /\ board' = last.compact[k].game
            /\ last' = [op |-> "snapshot", game |-> w.game, ty |-> last.ty,
                        wire |-> {}, compact |-> <<>>]
    /\ prev' = board
    /\ turn' = turn + 1
    /\ UNCHANGED <<status, mode, debug>>

WireNext == SimulateBoth \/ Descend

WireSpec == WireInit /\ [][WireNext]_vars

(***************************************************************************)
(* Properties.  board is always a board the program holds: the converted   *)
(* snapshot or a successor that simulate_with_moves returned.  prev is the *)
(* board the last call was made on and last.game what the evaluator built  *)
(* for the joint move last.m.                                              *)
(***************************************************************************)
AliveIds(b) == {i \in SnakeIds(b) : b.healths[i] > 0}

SnakeKinds ==
    {"SnakeHead", "SnakeBodyPiece", "DoubleStackedPiece", "TripleStackedPiece"}

OwnedCells(b, i) ==
    {ci \in DOMAIN b.cells : b.cells[ci].flags \in SnakeKinds /\ b.cells[ci].id = i}

Called == last.op = "simulate"

Evaluated == Called /\ last.m # <<>>

Emitted == Evaluated /\ status = "ok"

ListedIds == {last.list[k][1] : k \in DOMAIN last.list}

\* The segments one cell stands for.
Segments(c) ==
    IF is_triple_stacked_piece(c) THEN TRIPLE_STACK
    ELSE IF is_double_stacked_piece(c) THEN DOUBLE_STACK
    ELSE 1

\* The segments on the walk along the links from index to the head, the
\* head included; -1 when the walk does not arrive at the head.
RECURSIVE RingWalk(_, _, _, _)
RingWalk(b, index, head_index, fuel) ==
    IF index = head_index THEN Segments(get_cell(b, head_index))
    ELSE IF fuel = 0 \/ index \notin DOMAIN b.cells THEN -1
    ELSE LET nxt == get_next_index(get_cell(b, index))
             rest == RingWalk(b, nxt.v, head_index, fuel - 1)
         IN IF ~nxt.some \/ rest < 0 THEN -1
            ELSE Segments(get_cell(b, index)) + rest

RingLength(b, i) ==
    LET head_index == b.heads[i]
        tail_index == get_tail_position(get_cell(b, head_index), head_index)
    IN IF ~tail_index.some THEN -1
       ELSE RingWalk(b, tail_index.v, head_index, BoardSize(b))

\* C1: for every joint move that simulate_with_moves produces from a
\* reachable board, the evaluator yields a successor and assert_consistency
\* is true of it.
C1_SuccessorsConsistent ==
    Evaluated => (status = "ok" /\ assert_consistency(last.game) = "ok")

\* C2: in every reachable board, for every alive agent, the walk from the
\* tail stored at its head along the links returns to the head and visits
\* as many segments (a DoubleStacked cell counting 2, a TripleStacked cell
\* 3) as lengths says.
C2_RingMatchesLength ==
    \A i \in AliveIds(board) : RingLength(board, i) = board.lengths[i]

\* C3: every simulate_with_moves call on a reachable board, for any list of
\* (agent id, candidate directions) pairs, completes without panicking and
\* every successor it emits is well-formed.
C3_Total ==
    Called => (status = "ok" /\ assert_consistency(board) = "ok")

\* C4: in every reachable board a dead agent owns no cell of a snake kind
\* and its health, length and head slots are zero.
C4_DeadRemoved ==
    \A i \in SnakeIds(board) :
        board.healths[i] = 0 =>
            /\ OwnedCells(board, i) = {}
            /\ board.lengths[i] = 0
            /\ board.heads[i] = 0

\* C5: in every reachable board every health is between 0 and 100 and
\* every alive agent's length is at least 1.
C5_HealthAndLengthRange ==
    \A i \in SnakeIds(board) :
        /\ board.healths[i] \in 0..MaxHealth
        /\ board.healths[i] > 0 => board.lengths[i] >= 1

\* An emitted successor in which an agent stepped on a hazard with less
\* health than the damage and another agent was fed to full health.
C5_Witness ==
    /\ Emitted
    /\ \E k \in DOMAIN last.m :
        LET i == last.m[k][1]
            r == SingleMoveResult(prev, i, last.m[k][2], mode, debug)
        IN /\ prev.healths[i] > 0
           /\ prev.healths[i] - 1 < prev.hazard_damage
           /\ r.kind = "Dead"
           /\ board.healths[i] = 0
           /\ board.lengths[i] = 0
    /\ \E j \in AliveIds(board) : board.healths[j] < prev.healths[j]

\* The last call's joint move, agent by agent: who moved, the move, the
\* entry of the generate_state table it selects, and who arrived alive on
\* a cell.
Movers == {last.m[k][1] : k \in DOMAIN last.m}

MoveOf(i) == last.m[CHOOSE k \in DOMAIN last.m : last.m[k][1] = i][2]

LastResult(i) ==
    IF prev.healths[i] = 0 THEN Dead
    ELSE SingleMoveResult(prev, i, MoveOf(i), mode, debug)

Arrives(i, ci) ==
    /\ i \in Movers
    /\ LastResult(i).kind = "Alive"
    /\ LastResult(i).new_head = ci

GroupOn(ci) == {i \in Movers : Arrives(i, ci)}

FreeBefore(ci) == prev.cells[ci].flags \in {"Empty", "Food"}

HeadOn(b, i, ci) ==
    /\ b.healths[i] > 0
    /\ b.heads[i] = ci
    /\ b.cells[ci].flags = "SnakeHead"
    /\ b.cells[ci].id = i

Removed(b, i) ==
    /\ b.healths[i] = 0
    /\ b.lengths[i] = 0
    /\ b.heads[i] = 0
    /\ OwnedCells(b, i) = {}

\* C6: when two agents of different lengths move into the same cell (a free
\* one, nobody else arriving), the longer one survives with its head on
\* that cell and the shorter one is removed entirely: no cell owned by it
\* remains and its slots are zero.
C6_UnequalHeadToHead ==
    Emitted =>
        \A ci \in DOMAIN prev.cells : \A a, c \in GroupOn(ci) :
            (/\ GroupOn(ci) = {a, c}
             /\ FreeBefore(ci)
             /\ prev.lengths[a] > prev.lengths[c])
            => (HeadOn(board, a, ci) /\ Removed(board, c))

\* C7 as stated: when two agents of equal length move into the same cell,
\* both die and the shared cell is Empty in the successor.
C7_EqualHeadToHeadAsStated ==
    Emitted =>
        \A ci \in DOMAIN prev.cells : \A a, c \in GroupOn(ci) :
            (a # c /\ prev.lengths[a] = prev.lengths[c])
            => (/\ board.healths[a] = 0
                /\ board.healths[c] = 0
                /\ board.cells[ci].flags = "Empty")

\* C7, amended: when two agents of equal length arrive on the same cell,
\* both die; the shared cell is Empty in the successor when nobody else
\* arrives on it and it held no snake before the tick.
C7_EqualHeadToHead ==
    Emitted =>
        \A ci \in DOMAIN prev.cells : \A a, c \in GroupOn(ci) :
            (a # c /\ prev.lengths[a] = prev.lengths[c])
            => (/\ board.healths[a] = 0
                /\ board.healths[c] = 0
                /\ (GroupOn(ci) = {a, c} /\ FreeBefore(ci))
                    => board.cells[ci].flags = "Empty")

\* An emitted successor of a tick in which exactly two agents of equal
\* length arrived on one free cell.
C7_Witness ==
    /\ Emitted
    /\ \E ci \in DOMAIN prev.cells : \E a, c \in GroupOn(ci) :
        /\ a # c
        /\ GroupOn(ci) = {a, c}
        /\ prev.lengths[a] = prev.lengths[c]
        /\ FreeBefore(ci)
        /\ board.cells[ci].flags = "Empty"

\* A cell that holds a body segment (not a head) of the alive agent t
\* before the tick and still does when the heads arrive: t is not removed
\* by its own move, and the cell is not the unstacked tail t moves away.
BodyStays(ci, t) ==
    /\ prev.cells[ci].flags \in {"SnakeBodyPiece", "DoubleStackedPiece"}
    /\ prev.cells[ci].id = t
    /\ prev.healths[t] > 0
    /\ t \in Movers =>
        /\ LastResult(t).kind = "Alive"
        /\ LastResult(t).old_tail = ci => is_double_stacked_piece(prev.cells[ci])

UnstackedTail(b, t) ==
    LET tail_index == get_tail_position(get_cell(b, b.heads[t]), b.heads[t])
    IN IF tail_index.some /\ is_snake_body_piece(get_cell(b, tail_index.v))
       THEN {tail_index.v} ELSE {}

\* C9: an agent that moves into the cell holding the unstacked tail of
\* another moving agent, nobody else arriving there, survives the tick
\* with its head on that cell.
C9_TailChase ==
    Emitted =>
        \A i, t \in Movers :
            (/\ i # t
             /\ prev.healths[t] > 0
             /\ \E ci \in UnstackedTail(prev, t) : GroupOn(ci) = {i})
            => HeadOn(board, i, LastResult(i).new_head)

\* An emitted successor of a tick in which an agent moved into the
\* unstacked tail of another agent that moved elsewhere.
C9_Witness ==
    /\ Emitted
    /\ \E i, t \in Movers :
        /\ i # t
        /\ prev.healths[t] > 0
        /\ LastResult(t).kind = "Alive"
        /\ \E ci \in UnstackedTail(prev, t) :
            GroupOn(ci) = {i} /\ board.heads[i] = ci /\ board.cells[ci].id = i

\* C10: an agent that moves onto a Food cell and survives has length =
\* old length + 1 and health = 100 in the successor, its new-tail cell is
\* DoubleStacked, and the Food is gone: the cell holds the agent's head.
C10_Food ==
    Emitted =>
        \A i \in Movers :
            (/\ LastResult(i).kind = "Alive"
             /\ is_food(get_cell(prev, LastResult(i).new_head))
             /\ board.healths[i] > 0)
            => (/\ board.lengths[i] = prev.lengths[i] + 1
                /\ board.healths[i] = MaxHealth
                /\ HeadOn(board, i, LastResult(i).new_head)
                /\ LET new_tail == get_tail_position(
                                       get_cell(board, board.heads[i]), board.heads[i]).v
                   IN /\ is_double_stacked_piece(get_cell(board, new_tail))
                      /\ get_cell(board, new_tail).id = i)

\* A start-of-game board: every agent is alive and is a single
\* TripleStacked cell.
AtSpawn(b) ==
    \A i \in SnakeIds(b) :
        b.healths[i] > 0 /\ is_triple_stacked_piece(get_cell(b, b.heads[i]))

\* The joint move takes every agent to a cell of its own that was Empty
\* and no hazard before the tick.
AllToFreeCells ==
    /\ Movers = SnakeIds(prev)
    /\ \A i \in Movers :
        /\ LastResult(i).kind = "Alive"
        /\ is_empty(get_cell(prev, LastResult(i).new_head))
        /\ ~is_hazard(get_cell(prev, LastResult(i).new_head))
        /\ GroupOn(LastResult(i).new_head) = {i}

\* C11: on a Standard start-of-game board where every agent is a single
\* TripleStacked cell, a joint move that takes every agent to a free
\* on-board cell yields a successor where each agent has length 3 and
\* health 99, a Head on the new cell, and its former TripleStacked cell
\* demoted to DoubleStacked, linked to the new head.
C11_Spawn ==
    (Evaluated /\ mode = "Standard" /\ AtSpawn(prev) /\ AllToFreeCells) =>
        /\ status = "ok"
        /\ \A i \in Movers :
            /\ board.lengths[i] = 3
            /\ board.healths[i] = MaxHealth - 1
            /\ HeadOn(board, i, LastResult(i).new_head)
            /\ board.cells[prev.heads[i]] =
                    make_double_stacked_piece(i, LastResult(i).new_head)

\* An emitted successor of a start-of-game board with three agents that
\* all moved to free cells.
C11_Witness ==
    /\ Emitted
    /\ mode = "Standard"
    /\ AtSpawn(prev)
    /\ AllToFreeCells
    /\ Cardinality(Movers) = 3
    /\ \A i \in Movers : is_double_stacked_piece(board.cells[prev.heads[i]])

\* The square next to the head of agent i in direction mv, before any
\* wrapping.
StepFrom(b, i, mv) == add_vec(into_position(b.heads[i], width(b)), to_vector(mv))

\* Direction mv takes the head of agent i to cell ci: to that square on a
\* Standard board, to that square modulo the dimensions on a Wrapped one.
LeadsTo(b, i, mv, ci) ==
    IF mode = "Wrapped"
    THEN /\ StepFrom(b, i, mv).x % get_actual_width(b) = into_position(ci, width(b)).x
         /\ StepFrom(b, i, mv).y % get_actual_height(b) = into_position(ci, width(b)).y
    ELSE StepFrom(b, i, mv) = into_position(ci, width(b))

\* C12: in Standard and in Wrapped mode, an agent whose direction in the
\* joint move leads into its own neck (the segment right behind its head)
\* is dead in the board the evaluator builds.
C12_Neck ==
    Evaluated =>
        \A i \in Movers : \A ci \in DOMAIN prev.cells :
            (/\ prev.healths[i] > 0
             /\ is_neck(prev, i, ci)
             /\ LeadsTo(prev, i, MoveOf(i), ci))
            => (/\ last.game.healths[i] = 0
                /\ last.game.lengths[i] = 0)

\* An emitted successor of a Wrapped board in which an agent stepped over
\* the edge into its own neck and is dead.
C12_Witness ==
    /\ Emitted
    /\ mode = "Wrapped"
    /\ \E i \in Movers : \E ci \in DOMAIN prev.cells :
        /\ prev.healths[i] > 0
        /\ is_neck(prev, i, ci)
        /\ LeadsTo(prev, i, MoveOf(i), ci)
        /\ off_board(prev, StepFrom(prev, i, MoveOf(i)))
        /\ board.healths[i] = 0

\* Agent i of the joint move was alive and its direction leads to a cell
\* marked hazard that holds no food.
OntoHazard(i, ci) ==
    /\ i \in Movers
    /\ prev.healths[i] > 0
    /\ LeadsTo(prev, i, MoveOf(i), ci)
    /\ prev.cells[ci].hazard_count > 0
    /\ prev.cells[ci].flags # "Food"

\* C13: an agent whose new head lands on a hazard cell without food loses
\* exactly 1 + hazard_damage health in that tick, saturating at 0: it is
\* dead when it had no more than that, and if it is alive in the successor
\* its health is the old one minus 1 + hazard_damage.
C13_Hazard ==
    Emitted =>
        \A i \in Movers : \A ci \in DOMAIN prev.cells :
            OntoHazard(i, ci) =>
                /\ prev.healths[i] <= 1 + prev.hazard_damage => board.healths[i] = 0
                /\ board.healths[i] > 0 =>
                        board.healths[i] = prev.healths[i] - (1 + prev.hazard_damage)
                /\ board.healths[i] \in 0..MaxHealth

\* An emitted successor of a tick in which one agent stepped on a hazard
\* and lost 1 + hazard_damage, and another stepped on a hazard with less
\* health than that and is dead.
C13_Witness ==
    /\ Emitted
    /\ \E i, j \in Movers : \E ci, cj \in DOMAIN prev.cells :
        /\ OntoHazard(i, ci)
        /\ OntoHazard(j, cj)
        /\ board.healths[i] > 0
        /\ board.healths[i] = prev.healths[i] - (1 + prev.hazard_damage)
        /\ prev.healths[j] < 1 + prev.hazard_damage
        /\ board.healths[j] = 0

\* C14: on every reachable board get_winner() is Some(i) when agent i is
\* the only agent still alive, and None when healths[0] is 0 while several
\* other agents are alive.
C14_Winner ==
    /\ \A i \in SnakeIds(board) :
            AliveIds(board) = {i} => get_winner(board) = Some(i)
    /\ (board.healths[0] = 0 /\ Cardinality(AliveIds(board)) > 1) =>
            get_winner(board) = None

\* The square k steps in direction mv from position p on the torus of the
\* board's actual width and height.
Shifted(b, p, mv, k) ==
    [x |-> (p.x + k * to_vector(mv).x) % get_actual_width(b),
     y |-> (p.y + k * to_vector(mv).y) % get_actual_height(b)]

\* head_gettable.rs: get_head_as_position
get_head_as_position(b, i) == into_position(b.heads[i], get_actual_width(b))

\* None of the k squares after the head of snake i in direction mv holds
\* food or is a hazard on board b.
PathClear(b, i, mv, k) ==
    \A j \in 1..k :
        LET c == get_cell(b, CellIndexNew(Shifted(b, get_head_as_position(b, i), mv, j),
                                         width(b)))
        IN ~is_food(c) /\ c.hazard_count = 0

\* C15: on a wrapped board, a snake that has made turn consecutive moves
\* in the one direction last.mv and survived them all, over squares without
\* food or hazard, has its head turn steps from where it started, modulo
\* the width on the x axis and the height on the y axis, and has lost
\* exactly turn health.
C15_Wrap ==
    status = "ok" =>
        \A i \in SnakeIds(board) :
            (turn > 0 /\ last.run[i] /\ PathClear(prev, i, last.mv, turn)) =>
                /\ get_head_as_position(board, i)
                        = Shifted(prev, get_head_as_position(prev, i), last.mv, turn)
                /\ board.healths[i] = prev.healths[i] - turn

Converted == last.op = "converted"

\* width times height is more than the board type has cells.
TooLarge(game, ty) ==
    game.width > 0 /\ game.height > ty.board_size \div game.width

\* C16: a conversion of a snapshot whose width times height exceeds
\* BOARD_SIZE, or that has more snakes than MAX_SNAKES, returns an error
\* and no board.
C16_SizeMismatch ==
    (Converted /\ (\/ TooLarge(last.game, last.ty)
                   \/ Len(last.game.snakes) > last.ty.max_snakes)) =>
        (status = "Err" /\ board = NoBoard)

\* Some position occurs three times or more in the body and the body has
\* another position as well.
StackedWithOthers(snake) ==
    \E k \in DOMAIN snake.body :
        /\ Count(snake.body, snake.body[k]) >= TRIPLE_STACK
        /\ \E j \in DOMAIN snake.body : snake.body[j] # snake.body[k]

\* C17: a conversion of a snapshot in which some snake's body holds three
\* identical positions together with any other position returns an error
\* and no board.
C17_MalformedBody ==
    (Converted /\ \E k \in DOMAIN last.game.snakes :
                        StackedWithOthers(last.game.snakes[k])) =>
        (status = "Err" /\ board = NoBoard)

\* C18: the Standard constructor on a wrapped snapshot and the Wrapped
\* constructor on a snapshot that is not wrapped both return an error: no
\* panic and no board.
C18_WrongMode ==
    (Converted /\ (mode = "Wrapped") # (last.game.ruleset = "wrapped")) =>
        (status = "Err" /\ board = NoBoard)

\* The board specializations of BestCellBoard: width, height and number of
\* snakes each one holds.
Specializations ==
    { [w |-> 7, h |-> 7, snakes |-> 4], [w |-> 11, h |-> 11, snakes |-> 4],
      [w |-> 15, h |-> 15, snakes |-> 8], [w |-> 19, h |-> 19, snakes |-> 4],
      [w |-> 19, h |-> 21, snakes |-> 4], [w |-> 25, h |-> 25, snakes |-> 8],
      [w |-> 50, h |-> 50, snakes |-> 16] }

Fitting(game) ==
    {s \in Specializations : /\ game.width <= s.w
                             /\ game.height <= s.h
                             /\ Len(game.snakes) <= s.snakes}

\* C19: for every snapshot of the standard rules that some specialization
\* fits, to_best_cell_board returns a board of the smallest specialization
\* whose width, height and number of snakes fit it, and that board has at
\* least width times height cells.
C19_BestFit ==
    (last.op = "best" /\ last.game.ruleset # "wrapped" /\ Fitting(last.game) # {}) =>
        /\ status = "Ok"
        /\ \E s \in Fitting(last.game) :
                /\ last.ty.board_size = s.w * s.h
                /\ \A t \in Fitting(last.game) : s.w * s.h <= t.w * t.h
        /\ last.ty.board_size >= last.game.width * last.game.height

\* C20 as stated: in every emitted pair the Action holds Some(d) exactly
\* for the agents of the joint move, d being the direction of agent i in
\* it, and None exactly for the agents that were dead in the predecessor.
C20_ActionAsStated ==
    Emitted =>
        \A i \in SnakeIds(prev) :
            /\ last.action[i].some <=> i \in Movers
            /\ i \in Movers => last.action[i] = Some(MoveOf(i))
            /\ ~last.action[i].some <=> prev.healths[i] = 0

\* C20, amended: in every emitted pair the Action holds Some(d) exactly
\* for the agents named in the call, which are the agents of the joint
\* move, d being the direction of agent i in it: the direction its head
\* went when it is alive in the successor.  Every other agent has None,
\* those dead in the predecessor and those alive but not named alike.
C20_Action ==
    Emitted =>
        /\ Movers = ListedIds
        /\ \A i \in SnakeIds(prev) :
            /\ last.action[i].some <=> i \in Movers
            /\ i \in Movers => last.action[i] = Some(MoveOf(i))
            /\ (i \in Movers /\ prev.healths[i] > 0 /\ board.healths[i] > 0) =>
                    LeadsTo(prev, i, last.action[i].v, board.heads[i])
            /\ (prev.healths[i] = 0 /\ i \notin ListedIds) => ~last.action[i].some

\* An emitted pair of a call that named one alive agent and left another
\* alive agent out, on a board with a dead agent: the named one has moved
\* where its Some(d) says, the other two have None.
C20_Witness ==
    /\ Emitted
    /\ \E i, j, k \in SnakeIds(prev) :
        /\ i \in Movers
        /\ prev.healths[i] > 0
        /\ board.healths[i] > 0
        /\ last.action[i] = Some(MoveOf(i))
        /\ LeadsTo(prev, i, MoveOf(i), board.heads[i])
        /\ j \notin Movers
        /\ prev.healths[j] > 0
        /\ ~last.action[j].some
        /\ k \notin Movers
        /\ prev.healths[k] = 0
        /\ ~last.action[k].some

RoundTripped == last.op = "round_trip"

\* C21: for the packed map h of any board the program holds, unpacking h
\* returns a board and packing that board gives h again.
C21_PackRoundTrip ==
    RoundTripped => (status = "ok" /\ last.again = last.hash)


(***************************************************************************)
(* The order of directions and of agents.                                  *)
(***************************************************************************)
Enumerated == last.op = "enumerate" /\ status = "ok"

IndexedInOrder ==
    /\ \A k \in 1..N_MOVES : as_index(MoveAll[k]) = k - 1
    /\ \A m \in Moves : from_index(as_index(m)) = m

AgentsOf(m) == [j \in DOMAIN m |-> m[j][1]]

Compared == last.op = "compare" /\ status = "ok"

SameCount == Len(last.compact) = Cardinality(last.wire)

SameSuccessors ==
    \A k \in DOMAIN last.compact :
        last.compact[k].game.healths[0] > 0 =>
            \A w \in last.wire :
                SameMoves(w.moves, last.compact[k].m) =>
                    /\ convert_from_game(w.game, last.ty).result = "Ok"
                    /\ convert_from_game(w.game, last.ty).b = last.compact[k].game

\* C23: on a standard game the board and the Simulator of the snapshot
\* return the same number of successors for all four moves of every snake,
\* and for every joint move after which snake 0 is alive the board's
\* successor is the board converted from the Simulator's successor; the
\* same holds from such a successor pair.
C23_WireEquivalent ==
    Compared => (SameCount /\ SameSuccessors)


(***************************************************************************)
(* Food and hazards under the bodies.                                      *)
(***************************************************************************)
\* The cells the walk of a ring passes: from index along the links to the
\* head.
RECURSIVE RingCellsFrom(_, _, _, _)
RingCellsFrom(b, index, head_index, fuel) ==
    IF index = head_index \/ fuel = 0 \/ index \notin DOMAIN b.cells THEN {head_index}
    ELSE LET nxt == get_next_index(get_cell(b, index))
         IN {index} \cup (IF nxt.some
                          THEN RingCellsFrom(b, nxt.v, head_index, fuel - 1)
                          ELSE {})

\* The cells of snake i: its head, the tail the head cell names and the
\* cells linked from there.
RingCells(b, i) ==
    LET tail == get_tail_position(get_cell(b, b.heads[i]), b.heads[i])
    IN IF tail.some THEN RingCellsFrom(b, tail.v, b.heads[i], BoardSize(b))
       ELSE {b.heads[i]}

NoFoodUnderBody(b) ==
    \A i \in AliveIds(b) :
        \A ci \in RingCells(b, i) : ~is_food(get_cell(b, ci))

WorkBoard ==
    PhaseA([b |-> prev, bad |-> FALSE, to_kill |-> {}],
           generate_state(prev, last.list, mode, debug), last.m, 1).b

\* Agent i arrives alive on a cell that still holds a snake.
ArrivesOnSnake(i) ==
    /\ i \in Movers
    /\ LastResult(i).kind = "Alive"
    /\ \/ is_body_segment(get_cell(WorkBoard, LastResult(i).new_head))
       \/ is_head(get_cell(WorkBoard, LastResult(i).new_head))

\* C25: an agent whose new head cell still holds a body segment or a head
\* once the old tails of all agents of the joint move are removed is dead
\* on the board the evaluator builds, and so in the successor.
C25_BodyCollision ==
    Evaluated =>
        \A i \in Movers : ArrivesOnSnake(i) => last.game.healths[i] = 0

\* An emitted successor of a tick in which one agent arrived on a cell
\* still held by another agent of the joint move, and died while the other
\* survived.
C25_Witness ==
    /\ Emitted
    /\ \E i, t \in Movers :
        /\ i # t
        /\ ArrivesOnSnake(i)
        /\ get_cell(WorkBoard, LastResult(i).new_head).id = t
        /\ board.healths[i] = 0
        /\ board.healths[t] > 0


(***************************************************************************)
(* The agents without a direction to take.                                 *)
(***************************************************************************)
\* The table of the drained call and, for its k-th joint move, the board
\* after the loop of lines 185-228.
EnumStates == generate_state(board, last.list, mode, debug)

EnumWorkBoard(k) ==
    PhaseA([b |-> board, bad |-> FALSE, to_kill |-> {}],
           EnumStates, last.results[k].m, 1).b

\* Every candidate of the e-th entry of the list is Dead in the table.
Trapped(e) ==
    \A j \in DOMAIN last.list[e][2] :
        EnumStates[last.list[e][1]][as_index(last.list[e][2][j])].kind = "Dead"

\* In every joint move of the call the e-th agent has its first candidate,
\* and it is dead in every successor that came back.
KeptAndDead(e) ==
    \A k \in DOMAIN last.results :
        /\ last.results[k].m[e] = <<last.list[e][1], last.list[e][2][1]>>
        /\ last.results[k].status = "ok" =>
                last.results[k].game.healths[last.list[e][1]] = 0

Kept(e) ==
    LET alive == {mv \in Moves :
                    /\ \E j \in DOMAIN last.list[e][2] : last.list[e][2][j] = mv
                    /\ EnumStates[last.list[e][1]][as_index(mv)].kind # "Dead"}
    IN IF alive = {} THEN {last.list[e][2][1]} ELSE alive

RECURSIVE ProductOfSizes(_)
ProductOfSizes(e) ==
    IF e = 0 THEN 1 ELSE Cardinality(Kept(e)) * ProductOfSizes(e - 1)

\* The successors the caller gets: the elements before the first one that
\* does not come back.
Yielded == {k \in DOMAIN last.results : \A j \in 1..k : last.results[j].status = "ok"}

\* C27: a call whose table is built yields one successor for every element
\* of the product of the filtered lists: as many successors as the product
\* of the list sizes, no joint move twice and none missing.
C27_Product ==
    (last.op = "enumerate" /\ GenerateOutcome(EnumStates) = "ok") =>
        /\ Cardinality(Yielded) = ProductOfSizes(Len(last.list))
        /\ \A j, k \in Yielded : last.results[j].m = last.results[k].m => j = k
        /\ \A ch \in [DOMAIN last.list -> Moves] :
                (\A e \in DOMAIN last.list : ch[e] \in Kept(e)) =>
                    \E k \in Yielded :
                        \A e \in DOMAIN last.list :
                            last.results[k].m[e] = <<last.list[e][1], ch[e]>>


(***************************************************************************)
(* The table computed once against the table of one joint move.            *)
(***************************************************************************)
\* C28: every successor of a call, evaluated from the table computed once
\* for all candidates, is the board evaluate_moves builds for that joint
\* move from a table generated for its moves alone; and the table's entry
\* for a listed agent and candidate is the one generated for that pair on
\* its own.
C28_TableOnce ==
    last.op = "enumerate" =>
        /\ \A k \in DOMAIN last.results :
                last.results[k].game
                    = evaluate_moves(board, last.results[k].m, mode, debug).b
        /\ GenerateOutcome(EnumStates) = "ok" =>
            \A e \in DOMAIN last.list : \A j \in DOMAIN last.list[e][2] :
                EnumStates[last.list[e][1]][as_index(last.list[e][2][j])]
                    = generate_state(board,
                                     << <<last.list[e][1], <<last.list[e][2][j]>> >> >>,
                                     mode, debug)
                        [last.list[e][1]][as_index(last.list[e][2][j])]

\* A drained call on three agents with several candidates each and at
\* least eight successors, in one of which an agent died by a collision.
C28_Witness ==
    /\ Enumerated
    /\ Len(last.list) = 3
    /\ \A e \in DOMAIN last.list : Len(last.list[e][2]) >= 2
    /\ Len(last.results) >= 8
    /\ \E k \in DOMAIN last.results : \E e \in DOMAIN last.list :
        /\ EnumStates[last.list[e][1]][as_index(last.results[k].m[e][2])].kind = "Alive"
        /\ last.results[k].game.healths[last.list[e][1]] = 0


(***************************************************************************)
(* The tail of a survivor.                                                 *)
(***************************************************************************)
TailOf(b, i) == get_tail_position(get_cell(b, b.heads[i]), b.heads[i]).v

\* Agent i moved in the last tick and is alive before and after it.
Survives(i) ==
    /\ i \in Movers
    /\ prev.healths[i] > 0
    /\ board.healths[i] > 0

\* C29 as stated: the stacked tail of a surviving agent stays on its square
\* with one segment less (a DoubleStacked tail becomes a BodyPiece with the
\* same link); an unstacked tail square becomes Empty and the new tail is
\* the cell its link pointed to.
C29_TailAsStated ==
    Emitted =>
        \A i \in Movers : Survives(i) =>
            IF is_stacked(get_cell(prev, TailOf(prev, i)))
            THEN /\ TailOf(board, i) = TailOf(prev, i)
                 /\ Segments(get_cell(board, TailOf(prev, i)))
                        = Segments(get_cell(prev, TailOf(prev, i))) - 1
                 /\ is_double_stacked_piece(get_cell(prev, TailOf(prev, i))) =>
                        get_cell(board, TailOf(prev, i))
                            = [get_cell(prev, TailOf(prev, i)) EXCEPT !.flags = "SnakeBodyPiece"]
            ELSE /\ get_cell(board, TailOf(prev, i)).flags = "Empty"
                 /\ TailOf(board, i) = get_next_index(get_cell(prev, TailOf(prev, i))).v

\* C29: the stacked tail of a surviving agent stays on its square; a
\* DoubleStacked tail keeps its link and becomes a BodyPiece when the
\* agent did not eat and is DoubleStacked again when it ate, a
\* TripleStacked cell becomes DoubleStacked.  An unstacked tail square is
\* left by the agent: it is Empty unless the head of a surviving agent has
\* arrived on it, and the new tail is the cell its link pointed to.
C29_Tail ==
    Emitted =>
        \A i \in Movers : Survives(i) =>
            IF is_stacked(get_cell(prev, TailOf(prev, i)))
            THEN /\ TailOf(board, i) = TailOf(prev, i)
                 /\ is_double_stacked_piece(get_cell(prev, TailOf(prev, i))) =>
                        get_cell(board, TailOf(prev, i))
                            = [get_cell(prev, TailOf(prev, i)) EXCEPT
                                  !.flags = IF LastResult(i).ate_food
                                            THEN "DoubleStackedPiece"
                                            ELSE "SnakeBodyPiece"]
                 /\ is_triple_stacked_piece(get_cell(prev, TailOf(prev, i))) =>
                        is_double_stacked_piece(get_cell(board, TailOf(prev, i)))
            ELSE /\ \/ get_cell(board, TailOf(prev, i)).flags = "Empty"
                    \/ \E j \in Movers : HeadOn(board, j, TailOf(prev, i))
                 /\ TailOf(board, i) = get_next_index(get_cell(prev, TailOf(prev, i))).v

\* An emitted successor of a tick in which one survivor moved off a
\* DoubleStacked tail without eating and another moved its unstacked tail.
C29_Witness ==
    /\ Emitted
    /\ \E i, j \in Movers :
        /\ Survives(i)
        /\ Survives(j)
        /\ is_double_stacked_piece(get_cell(prev, TailOf(prev, i)))
        /\ ~LastResult(i).ate_food
        /\ is_snake_body_piece(get_cell(board, TailOf(prev, i)))
        /\ ~is_stacked(get_cell(prev, TailOf(prev, j)))
        /\ get_cell(board, TailOf(prev, j)).flags = "Empty"

(***************************************************************************)
(* The winner of a head-to-head.                                           *)
(***************************************************************************)
\* The length the head-to-head loop reads for agent i: the length on the
\* board after the loop of lines 185-228.
CurrentLength(i) == get_length(WorkBoard, i)

\* Agent a is the only longest agent of the group arriving on ci.
UniqueLongest(a, ci) ==
    /\ a \in GroupOn(ci)
    /\ Cardinality(GroupOn(ci)) >= 2
    /\ \A c \in GroupOn(ci) \ {a} : CurrentLength(c) < CurrentLength(a)

\* C30 as stated: in a head-to-head the lengths compared are the lengths
\* after the first loop, growth of this tick included; the only longest
\* agent of the group survives and every other agent of the group dies.
C30_WinnerAsStated ==
    Evaluated =>
        \A ci \in DOMAIN prev.cells : \A a \in GroupOn(ci) :
            UniqueLongest(a, ci) =>
                /\ last.game.healths[a] > 0
                /\ \A c \in GroupOn(ci) \ {a} : last.game.healths[c] = 0

\* C30, amended: the lengths compared are the lengths after the first
\* loop, which are the lengths before the tick plus one for an agent that
\* ate on this tick; every agent of the group other than the only longest
\* one dies; the only longest one survives when the shared cell holds no
\* body segment and no head once the old tails are removed.
C30_Winner ==
    Evaluated =>
        \A ci \in DOMAIN prev.cells :
            /\ \A c \in GroupOn(ci) :
                CurrentLength(c) = LastResult(c).new_length
            /\ \A c \in GroupOn(ci) :
                CurrentLength(c)
                    = prev.lengths[c] + (IF LastResult(c).ate_food THEN 1 ELSE 0)
            /\ \A a \in GroupOn(ci) :
                UniqueLongest(a, ci) =>
                    /\ \A c \in GroupOn(ci) \ {a} : last.game.healths[c] = 0
                    /\ ~ArrivesOnSnake(a) => last.game.healths[a] > 0

\* An emitted successor of a tick in which two agents of different lengths
\* arrived on one food cell, both grew, the longer one is alive with its
\* head there and the other one is dead.
C30_Witness ==
    /\ Emitted
    /\ \E ci \in DOMAIN prev.cells : \E a, c \in GroupOn(ci) :
        /\ a # c
        /\ UniqueLongest(a, ci)
        /\ LastResult(a).ate_food
        /\ LastResult(c).ate_food
        /\ CurrentLength(a) = prev.lengths[a] + 1
        /\ HeadOn(board, a, ci)
        /\ board.healths[c] = 0

(***************************************************************************)
(* Starvation.                                                             *)
(***************************************************************************)
\* Agent i of the joint move was alive and its direction leads to cell ci,
\* where the decrement of the tick and the hazard damage of ci leave it no
\* health.
WouldStarve(i, ci) ==
    /\ i \in Movers
    /\ prev.healths[i] > 0
    /\ LeadsTo(prev, i, MoveOf(i), ci)
    /\ prev.healths[i] - 1
            - (IF prev.cells[ci].hazard_count > 0 THEN prev.hazard_damage ELSE 0) <= 0

\* C31: an agent whose health after the decrement of the tick (and the
\* hazard damage of its new head cell) would be 0 is dead on the board the
\* evaluator builds, unless its new head cell is Food: then its move result
\* is Alive with health 100, and it has health 100 on that board when no
\* other agent arrives on the cell (it is dead only by a collision).
C31_Starvation ==
    Evaluated =>
        \A i \in Movers : \A ci \in DOMAIN prev.cells :
            WouldStarve(i, ci) =>
                IF is_food(get_cell(prev, ci))
                THEN /\ LastResult(i).kind = "Alive"
                     /\ LastResult(i).new_health = MaxHealth
                     /\ last.game.healths[i] \in {0, MaxHealth}
                     /\ GroupOn(ci) = {i} => last.game.healths[i] = MaxHealth
                ELSE last.game.healths[i] = 0

\* An emitted successor of a tick in which one agent with no health to
\* spare moved onto food in a hazard and has health 100, and another one
\* moved onto a cell without food and is dead.
C31_Witness ==
    /\ Emitted
    /\ \E i, j \in Movers : \E ci, cj \in DOMAIN prev.cells :
        /\ WouldStarve(i, ci)
        /\ is_food(get_cell(prev, ci))
        /\ is_hazard(get_cell(prev, ci))
        /\ board.healths[i] = MaxHealth
        /\ WouldStarve(j, cj)
        /\ ~is_food(get_cell(prev, cj))
        /\ board.healths[j] = 0

(***************************************************************************)
(* The index of the wrapped step.  A head position on the board and a      *)
(* direction are drawn; the step is computed as generate_state computes    *)
(* it in Wrapped mode (eval.rs, lines 97-100): the head's index, which     *)
(* convert_from_game and get_native_position write with the actual width,  *)
(* is decoded with CellBoard::width(), moved, and handed to                *)
(* as_wrapped_cell_index.                                                  *)
(***************************************************************************)
OnBoardPositions(b) ==
    {Pos(px, py) : px \in 0..(get_actual_width(b) - 1),
                   py \in 0..(get_actual_height(b) - 1)}

WrapIndexInit ==
    /\ \E f \in WrapFixtures :
        \E conv \in {adapter_convert_from_game(f.game, f.ty, "Wrapped")} :
            /\ conv.result = "Ok"
            /\ board = conv.b
            /\ prev = conv.b
            /\ \E p \in OnBoardPositions(conv.b) : \E mv \in Moves :
                last = [op |-> "head", head |-> p, mv |-> mv, idx |-> 0]
    /\ mode = "Wrapped"
    /\ debug \in BOOLEAN
    /\ status = "ok"
    /\ turn = 0

WrapIndex ==
    /\ last.op = "head"
    /\ \E wrapped \in {as_wrapped_cell_index(board,
                         add_vec(into_position(
                                    CellIndexNew(last.head, get_actual_width(board)),
                                    width(board)),
                                 to_vector(last.mv)))} :
        /\ status' = IF wrapped.panic \/ (debug /\ wrapped.bad) THEN "panic" ELSE "ok"
        /\ last' = [last EXCEPT !.op = "wrap", !.idx = wrapped.idx]
    /\ turn' = turn + 1
    /\ UNCHANGED <<board, prev, mode, debug>>

WrapIndexNext == WrapIndex

WrapIndexSpec == WrapIndexInit /\ [][WrapIndexNext]_vars

\* C32: for every head position on the board and every direction,
\* as_wrapped_cell_index returns (without a panic) the index of a cell of
\* the board, and that cell is the head position moved one step and reduced
\* modulo the actual width and height, also on a board whose width() is
\* not its actual width.
C32_WrappedIndex ==
    last.op = "wrap" =>
        /\ status = "ok"
        /\ last.idx \in DOMAIN board.cells
        /\ ~off_board(board, into_position(last.idx, get_actual_width(board)))
        /\ into_position(last.idx, get_actual_width(board))
                = Shifted(board, last.head, last.mv, 1)

(***************************************************************************)
(* core/cell_board/mod.rs: get_empty_cells and place_food.  The random     *)
(* number generator is a free choice: gen_bool(0.15) may give either       *)
(* answer and choose_multiple any of the empty cells.                      *)
(***************************************************************************)
\* The cells without food.
get_unfed_cells(b) == {ci \in DOMAIN b.cells : ~is_food(get_cell(b, ci))}

get_empty_cells(b) == {ci \in DOMAIN b.cells : is_empty(get_cell(b, ci))}

\* Lines 479-483: the number of food cells to add, for each answer of the
\* generator.
food_to_add(b) ==
    IF ~\E ci \in DOMAIN b.cells : is_food(get_cell(b, ci)) THEN {1} ELSE {0, 1}

\* Lines 471-494: the boards place_food may leave.
place_food(b) ==
    UNION { IF n = 0 \/ get_empty_cells(b) = {}
            THEN {b}
            ELSE {[b EXCEPT !.cells[pos] = set_food(@)] : pos \in get_empty_cells(b)}
          : n \in food_to_add(b) }

\* A 3x3 board without a free square: two snakes fill it.
FullBoard ==
    Game(3, 3, <<Snake(60, <<Pos(1, 1), Pos(2, 1), Pos(2, 0), Pos(1, 0), Pos(0, 0)>>),
                 Snake(60, <<Pos(0, 1), Pos(0, 2), Pos(1, 2), Pos(2, 2)>>)>>,
         {}, {})

\* The games food is placed on: with and without food, with hazards, on a
\* board with more cells than the game has squares, and on a full board.
FoodFixtures ==
    { [game |-> StartWithFood, ty |-> Square3, mode |-> "Standard", builds |-> {FALSE},
       calls |-> MaxTurns - 1],
      [game |-> MidGame, ty |-> Duel3, mode |-> "Standard", builds |-> {FALSE},
       calls |-> MaxTurns - 1],
      [game |-> HazardFood, ty |-> Duel3, mode |-> "Standard", builds |-> {FALSE},
       calls |-> MaxTurns - 1],
      [game |-> WrapLone, ty |-> Four4, mode |-> "Wrapped", builds |-> {FALSE},
       calls |-> MaxTurns - 1],
      [game |-> FullBoard, ty |-> Duel3, mode |-> "Standard", builds |-> {FALSE},
       calls |-> MaxTurns - 1] }

FoodInit == InitFrom(FoodFixtures)

\* One call of place_food between two calls of simulate_with_moves.
PlaceFood ==
    /\ status = "ok"
    /\ last.op # "food"
    /\ \E fed \in place_food(board) :
        /\ board' = fed
        /\ last' = [op |-> "food", list |-> <<>>, m |-> <<>>, action |-> <<>>,
                    game |-> fed]
    /\ prev' = board
    /\ UNCHANGED <<mode, debug, status, turn>>

FoodNext == Simulate \/ PlaceFood

FoodSpec == FoodInit /\ [][FoodNext]_vars

\* The cells the last call changed.
ChangedCells == {ci \in DOMAIN prev.cells : board.cells[ci] # prev.cells[ci]}

\* C33: place_food never changes a cell that is not Empty: on a board
\* without food it turns exactly one Empty cell into Food (none when no
\* cell is Empty), otherwise at most one; snake cells, hazard marks and the
\* slots of the agents are unchanged.
C33_PlaceFood ==
    last.op = "food" =>
        /\ \A ci \in ChangedCells :
            /\ is_empty(prev.cells[ci])
            /\ board.cells[ci] = [prev.cells[ci] EXCEPT !.flags = "Food"]
        /\ Cardinality(ChangedCells) <= 1
        /\ (~\E ci \in DOMAIN prev.cells : is_food(prev.cells[ci])) =>
                Cardinality(ChangedCells)
                    = (IF \E ci \in DOMAIN prev.cells : is_empty(prev.cells[ci])
                       THEN 1 ELSE 0)
        /\ [board EXCEPT !.cells = prev.cells] = prev

\* A board with snakes and hazards and without food on which place_food,
\* called after a tick, has just put food on an Empty hazard cell.
C33_Witness ==
    /\ last.op = "food"
    /\ turn > 0
    /\ ~\E ci \in DOMAIN prev.cells : is_food(prev.cells[ci])
    /\ \E i \in SnakeIds(prev) : prev.healths[i] > 0
    /\ \E ci \in ChangedCells : is_food(board.cells[ci]) /\ is_hazard(board.cells[ci])

(***************************************************************************)
(* The frame of kill_and_remove.                                           *)
(***************************************************************************)
\* The last joint move had the single agent i and its move result was
\* Dead: the evaluator's only step was kill_and_remove(i) on the caller's
\* board (eval.rs, line 226).
OnlyKilled(i) ==
    /\ Evaluated
    /\ Movers = {i}
    /\ LastResult(i).kind = "Dead"

\* C34: kill_and_remove(i) changes only cells owned by agent i and the
\* health, length and head slots of agent i, also when agent i is already
\* dead and its head slot is 0.
C34_KillFrame ==
    \A i \in SnakeIds(prev) :
        OnlyKilled(i) =>
            /\ \A ci \in DOMAIN prev.cells :
                last.game.cells[ci] # prev.cells[ci] => ci \in OwnedCells(prev, i)
            /\ \A j \in SnakeIds(prev) \ {i} :
                /\ last.game.healths[j] = prev.healths[j]
                /\ last.game.lengths[j] = prev.lengths[j]
                /\ last.game.heads[j] = prev.heads[j]

(***************************************************************************)
(* The hazards.                                                            *)
(***************************************************************************)
\* The hazard count of every cell of board b.
HazardCounts(b) == [ci \in DOMAIN b.cells |-> b.cells[ci].hazard_count]

\* C35: evaluation never changes hazards: the board the evaluator builds
\* for a joint move, and so every successor, has the hazard count of the
\* caller's board on every cell, and its hazard damage.
C35_HazardsKept ==
    /\ HazardCounts(board) = HazardCounts(prev)
    /\ board.hazard_damage = prev.hazard_damage
    /\ Evaluated =>
        /\ HazardCounts(last.game) = HazardCounts(prev)
        /\ last.game.hazard_damage = prev.hazard_damage

\* An emitted successor of a tick in which one agent died and a hazard
\* cell of its body was wiped, and another agent put its head on a hazard
\* cell.
C35_Witness ==
    /\ Emitted
    /\ \E i, j \in Movers : \E ci, cj \in DOMAIN prev.cells :
        /\ prev.healths[i] > 0
        /\ board.healths[i] = 0
        /\ ci \in OwnedCells(prev, i)
        /\ is_hazard(prev.cells[ci])
        /\ is_empty(board.cells[ci])
        /\ is_hazard(board.cells[ci])
        /\ HeadOn(board, j, cj)
        /\ prev.heads[j] # cj
        /\ is_hazard(board.cells[cj])

(***************************************************************************)
(* The food.                                                               *)
(***************************************************************************)
FoodCells(b) == {ci \in DOMAIN b.cells : is_food(b.cells[ci])}

\* C36: evaluation never creates food: the Food cells of the board the
\* evaluator builds for a joint move, and so of every successor, are Food
\* cells of the caller's board, and a Food cell of the caller's board is
\* missing only if the new head of some agent of the joint move was that
\* cell.
C36_NoNewFood ==
    /\ FoodCells(board) \subseteq FoodCells(prev)
    /\ Evaluated =>
        /\ FoodCells(last.game) \subseteq FoodCells(prev)
        /\ \A ci \in FoodCells(prev) \ FoodCells(last.game) : GroupOn(ci) # {}

\* An emitted successor of a tick in which a surviving agent ate one of two
\* Food cells, the other one is still Food, and another agent died and had
\* its cells removed.
C36_Witness ==
    /\ Emitted
    /\ \E ci, cj \in FoodCells(prev) : \E i, j \in Movers :
        /\ ci # cj
        /\ HeadOn(board, i, ci)
        /\ cj \in FoodCells(board)
        /\ prev.healths[j] > 0
        /\ Removed(board, j)

(***************************************************************************)
(* Death is permanent.                                                     *)
(***************************************************************************)
\* C37: an agent that is dead on a board is dead on every successor of
\* that board, so no step of simulate_with_moves increases the number of
\* alive agents.
C37_DeathPermanent ==
    [][/\ \A i \in SnakeIds(board) : board.healths[i] = 0 => board'.healths[i] = 0
       /\ alive_snake_count(board') <= alive_snake_count(board)
       /\ last'.op = "simulate" /\ last'.m # <<>> =>
            \A i \in SnakeIds(board) :
                board.healths[i] = 0 => last'.game.healths[i] = 0]_vars

\* An emitted successor of a board with two agents of which one had died:
\* the dead one was named in the joint move again and is still dead, the
\* other one moved and is alive.
C37_Witness ==
    /\ Emitted
    /\ \E i, j \in Movers :
        /\ prev.healths[i] = 0
        /\ OwnedCells(prev, i) = {}
        /\ board.healths[i] = 0
        /\ prev.healths[j] > 0
        /\ board.healths[j] > 0
        /\ board.heads[j] # prev.heads[j]
        /\ alive_snake_count(board) = alive_snake_count(prev)

(***************************************************************************)
(* The agents left out of the call.                                        *)
(***************************************************************************)
\* Agent j is the same on boards b and c: health, length, head and cells.
SameAgent(b, c, j) ==
    /\ c.healths[j] = b.healths[j]
    /\ c.lengths[j] = b.lengths[j]
    /\ c.heads[j] = b.heads[j]
    /\ OwnedCells(c, j) = OwnedCells(b, j)
    /\ \A ci \in OwnedCells(b, j) : c.cells[ci] = b.cells[ci]

\* C38: an alive agent that is not in the list passed to
\* simulate_with_moves is the same in every successor: same health, length
\* and head, and the same cells with the same content.
C38_Unlisted ==
    Emitted =>
        \A j \in AliveIds(prev) \ ListedIds : SameAgent(prev, board, j)

\* An emitted successor of a call that left out an alive agent, in which
\* a listed agent moved and survived and another listed agent ran into the
\* body of the agent left out and died.
C38_Witness ==
    /\ Emitted
    /\ \E j \in AliveIds(prev) \ ListedIds : \E i, k \in Movers :
        /\ i # k
        /\ HeadOn(board, i, LastResult(i).new_head)
        /\ prev.healths[k] > 0
        /\ LastResult(k).kind = "Alive"
        /\ LastResult(k).new_head \in OwnedCells(prev, j)
        /\ board.healths[k] = 0
        /\ SameAgent(prev, board, j)

(***************************************************************************)
(* The grid of the conversion and the grid of the move generator.  Boards  *)
(* are converted from games that fit them, among them 3x3 games on boards  *)
(* of 16 cells, whose width() is 4, and moved under the Standard rules.    *)
(***************************************************************************)
\* One snake at its spawn in the centre of a 3x3 board, standard rules.
LoneGame == [WrapLone EXCEPT !.ruleset = "standard"]

GridFixtures ==
    { [game |-> LoneGame, ty |-> Four4, mode |-> "Standard", builds |-> BOOLEAN,
       calls |-> MaxTurns - 1],
      [game |-> MidGame, ty |-> Square4, mode |-> "Standard", builds |-> {FALSE},
       calls |-> MaxTurns - 1],
      [game |-> LoneGame, ty |-> Duel3, mode |-> "Standard", builds |-> {FALSE},
       calls |-> MaxTurns],
      [game |-> MidGame, ty |-> Duel3, mode |-> "Standard", builds |-> {FALSE},
       calls |-> MaxTurns],
      [game |-> TallGame, ty |-> Tall3x4, mode |-> "Standard", builds |-> {FALSE},
       calls |-> MaxTurns - 1] }

GridInit == InitFrom(GridFixtures)

GridNext == Simulate

GridSpec == GridInit /\ [][GridNext]_vars

\* The position one step in direction mv from the head of agent i, the
\* head read as the board's accessors read it (get_head_as_position).
TrueStep(b, i, mv) == add_vec(get_head_as_position(b, i), to_vector(mv))

\* C39: on every board accepted by conversion, also when the game's width
\* is not the square root of BOARD_SIZE, the move generator works on the
\* grid the conversion wrote: after a Standard move in direction d that an
\* agent survives its head position is the old head position plus the unit
\* vector of d, and the generator takes a move for off-board exactly when
\* that position lies outside the game's width and height.
C39_SameGrid ==
    (Evaluated /\ mode = "Standard") =>
        \A i \in Movers :
            prev.healths[i] > 0 =>
                /\ (status = "ok" /\ board.healths[i] > 0) =>
                        get_head_as_position(board, i) = TrueStep(prev, i, MoveOf(i))
                /\ off_board(prev, StepFrom(prev, i, MoveOf(i)))
                        <=> off_board(prev, TrueStep(prev, i, MoveOf(i)))

(***************************************************************************)
(* Orphaned cells.                                                         *)
(***************************************************************************)
\* The cells of a snake kind on board b that the ring walk of their owner
\* does not visit (the owner is dead, or its ring passes elsewhere).
OrphanedCells(b) ==
    {ci \in DOMAIN b.cells :
        /\ b.cells[ci].flags \in SnakeKinds
        /\ \/ b.healths[b.cells[ci].id] = 0
           \/ ci \notin RingCells(b, b.cells[ci].id)}

\* C40: in every reachable board there is no orphaned snake cell, the head
\* slot of every alive agent names a head cell (SnakeHead or
\* TripleStackedPiece) owned by that agent, and no two alive agents have
\* the same head cell.
C40_NoOrphans ==
    /\ OrphanedCells(board) = {}
    /\ \A i \in AliveIds(board) :
        /\ is_head(get_cell(board, board.heads[i]))
        /\ get_cell(board, board.heads[i]).id = i
    /\ \A i, j \in AliveIds(board) : i # j => board.heads[i] # board.heads[j]

====
